---------------------------- MODULE Spec2Model ----------------------------
(***************************************************************************)
(* Model of the configuration engine of BBBDriverConsole (BBBConfig.cpp):  *)
(* BBBConfig::EnsureDetectedCameras (the reconciler), BBBConfig::SaveIni,  *)
(* BBBConfig::LoadIni and the helpers they call, and of the start of main  *)
(* (main.cpp), which calls them.                                           *)
(*                                                                         *)
(* A std::string is a sequence of one-character strings, so that Trim,     *)
(* ToLower and the text written by SaveIni are computed character by       *)
(* character.  A std::vector is a sequence; the code's 0-based index i is  *)
(* element i+1 of the sequence.  float/double values are small naturals.   *)
(* BBBParams is represented by one field of each type the code handles     *)
(* (float minRangeM, int roiMinXPct, bool applySpeckleFilter).             *)
(***************************************************************************)
EXTENDS Naturals, Integers, Sequences, FiniteSets, TLC

VARIABLES
    cfg,        \* the BBBAppConfig object the caller owns
    file,       \* lines of the INI file on disk (<<>>: nothing written yet)
    op,         \* last operation: "init", "ensure", "save", "load"
    pre,        \* cfg as it was when the last operation was called
    det,        \* detectedStereoSerials of the last EnsureDetectedCameras
    outChanged, \* outChanged of the last EnsureDetectedCameras
    ret,        \* return value of the last operation
    rep,        \* the last two operations were EnsureDetectedCameras with the same list
    pc,         \* position inside a running EnsureDetectedCameras ("idle": none running)
    li,         \* its loop index i
    lj,         \* its loop index j
    ui,         \* its position in detectedStereoSerials, then in uniqueDetected
    uniqueDetected,       \* its local uniqueDetected
    kv,         \* the key map the last LoadIni parsed
    opened,     \* whether the ifstream of the last LoadIni opened
    err,        \* the exception that escaped the last LoadIni ("none": it returned)
    at,         \* position of main ("none": main is not running)
    oi,         \* main's loop index i over Camera.0..2
    usedSerials,          \* main's local usedSerials
    act,        \* main's local act, each entry as [slot, available]
    calls       \* the calls main has made so far, in order, each with its result

locals == <<pc, li, lj, ui, uniqueDetected>>

\* what only LoadIni writes
loadlocals == <<kv, opened, err>>

\* what only main writes
mainlocals == <<at, oi, usedSerials, act, calls>>

vars == <<cfg, file, op, pre, det, outChanged, ret, rep, pc, li, lj, ui, uniqueDetected,
          kv, opened, err, at, oi, usedSerials, act, calls>>

----------------------------------------------------------------------------
(* Bounds of the model *)

\* longest camera list of an input configuration
MaxCams == 2
\* longest detected-serial list
MaxDet == 2

----------------------------------------------------------------------------
(* Strings *)

S_UNASSIGNED == <<"U","N","A","S","S","I","G","N","E","D">>
S_izq == <<"i","z","q">>
S_izquierda == <<"i","z","q","u","i","e","r","d","a">>
S_left == <<"l","e","f","t">>
S_der == <<"d","e","r">>
S_derecha == <<"d","e","r","e","c","h","a">>
S_right == <<"r","i","g","h","t">>
S_cen == <<"c","e","n">>
S_cenital == <<"c","e","n","i","t","a","l">>
S_top == <<"t","o","p">>

IsSpace(c) == c \in {" ", "\t", "\n", "\r"}

RECURSIVE TrimFront(_)
TrimFront(s) ==
    IF s # <<>> /\ IsSpace(Head(s)) THEN TrimFront(Tail(s)) ELSE s

RECURSIVE TrimBack(_)
TrimBack(s) ==
    IF s # <<>> /\ IsSpace(s[Len(s)]) THEN TrimBack(SubSeq(s, 1, Len(s) - 1)) ELSE s

Trim(s) == TrimBack(TrimFront(s))

Upper == <<"A","B","C","D","E","F","G","H","I","J","K","L","M",
           "N","O","P","Q","R","S","T","U","V","W","X","Y","Z">>
Lower == <<"a","b","c","d","e","f","g","h","i","j","k","l","m",
           "n","o","p","q","r","s","t","u","v","w","x","y","z">>

\* the lower-case letter of every upper-case letter
LowerOf == [c \in {Upper[k] : k \in 1..26} |-> Lower[CHOOSE k \in 1..26 : Upper[k] = c]]

tolower(c) == IF c \in DOMAIN LowerOf THEN LowerOf[c] ELSE c

ToLower(s) == [k \in 1..Len(s) |-> tolower(s[k])]

Digits == <<"0","1","2","3","4","5","6","7","8","9">>

IsDigit(ch) == \E k \in 1..10 : Digits[k] = ch

RECURSIVE to_string(_)
to_string(n) ==
    IF n < 0 THEN <<"-">> \o to_string(0 - n)
    ELSE IF n < 10 THEN <<Digits[n + 1]>>
    ELSE to_string(n \div 10) \o <<Digits[(n % 10) + 1]>>

----------------------------------------------------------------------------
(* Orientation and naming helpers *)

\* faulty variant of DefaultOrientForIndex: the index is taken as 1-based
DefaultOrientOneBased(index0Based) ==
    IF index0Based = 1 THEN S_izq
    ELSE IF index0Based = 2 THEN S_der
    ELSE S_cenital

DefaultOrientForIndex(index0Based) ==
    IF index0Based = 0 THEN S_izq
    ELSE IF index0Based = 1 THEN S_der
    ELSE S_cenital

CanonicalOrient(s0) ==
    LET s == ToLower(Trim(s0)) IN
    IF s = S_izq \/ s = S_izquierda \/ s = S_left THEN S_izq
    ELSE IF s = S_der \/ s = S_derecha \/ s = S_right THEN S_der
    ELSE IF s = S_cen \/ s = S_cenital \/ s = S_top THEN S_cenital
    ELSE s

MakeAutoName(c, serial, index1Based) ==
    IF serial # <<>>
    THEN c.namePrefix \o serial
    ELSE c.namePrefix \o S_UNASSIGNED \o to_string(index1Based)

ClampMax(n) == IF n < 1 THEN 1 ELSE IF n > 3 THEN 3 ELSE n


----------------------------------------------------------------------------
(* BBBConfig::EnsureDetectedCameras.  The loops carry st = [cams, changed]: *)
(* cfg.cameras and outChanged as the code updates them in place.           *)

\* faulty variant of DedupClear: enabled is not forced to true
DedupClearKeepsEnabled(c, cams, j) ==
    [cams EXCEPT ![j + 1] =
        [@ EXCEPT !.serial = <<>>,
                  !.name = MakeAutoName(c, <<>>, j + 1),
                  !.orient = IF @ = <<>> THEN DefaultOrientForIndex(j) ELSE @]]

\* the body of the if in the duplicate-cleaning loop, applied to cameras[j]
DedupClear(c, cams, j) ==
    [cams EXCEPT ![j + 1] =
        [@ EXCEPT !.serial = <<>>,
                  !.name = MakeAutoName(c, <<>>, j + 1),
                  !.orient = IF @ = <<>> THEN DefaultOrientForIndex(j) ELSE @,
                  !.enabled = TRUE]]

RECURSIVE DedupInner(_, _, _, _)
DedupInner(c, st, i, j) ==
    IF j >= Len(st.cams) THEN st
    ELSE IF st.cams[j + 1].serial = st.cams[i + 1].serial /\ st.cams[j + 1].serial # <<>>
         THEN DedupInner(c, [cams |-> DedupClear(c, st.cams, j), changed |-> TRUE], i, j + 1)
         ELSE DedupInner(c, st, i, j + 1)

RECURSIVE DedupOuter(_, _, _)
DedupOuter(c, st, i) ==
    IF i >= Len(st.cams) THEN st
    ELSE IF st.cams[i + 1].serial = <<>> THEN DedupOuter(c, st, i + 1)
    ELSE DedupOuter(c, DedupInner(c, st, i, i + 1), i + 1)

Contains(seq, s) == \E k \in 1..Len(seq) : seq[k] = s

RECURSIVE UniqueFrom(_, _)
UniqueFrom(detected, acc) ==
    IF detected = <<>> THEN acc
    ELSE LET s == Head(detected) IN
         IF s = <<>> THEN UniqueFrom(Tail(detected), acc)
         ELSE IF Contains(acc, s) THEN UniqueFrom(Tail(detected), acc)
         ELSE UniqueFrom(Tail(detected), Append(acc, s))

\* faulty variant of UniqueDetected: new serials are put in front
RECURSIVE UniqueFromFront(_, _)
UniqueFromFront(detected, acc) ==
    IF detected = <<>> THEN acc
    ELSE LET s == Head(detected) IN
         IF s = <<>> THEN UniqueFromFront(Tail(detected), acc)
         ELSE IF Contains(acc, s) THEN UniqueFromFront(Tail(detected), acc)
         ELSE UniqueFromFront(Tail(detected), <<s>> \o acc)

UniqueDetectedFront(detected) == UniqueFromFront(detected, <<>>)

\* faulty variant of UniqueDetected: the s.empty() test is missing
RECURSIVE UniqueFromKeepsEmpty(_, _)
UniqueFromKeepsEmpty(detected, acc) ==
    IF detected = <<>> THEN acc
    ELSE LET s == Head(detected) IN
         IF Contains(acc, s) THEN UniqueFromKeepsEmpty(Tail(detected), acc)
         ELSE UniqueFromKeepsEmpty(Tail(detected), Append(acc, s))

UniqueDetectedKeepsEmpty(detected) == UniqueFromKeepsEmpty(detected, <<>>)

UniqueDetected(detected) == UniqueFrom(detected, <<>>)

\* faulty variant of HasSerial: only Camera.0 is looked at
HasSerialFirstOnly(cams, s) ==
    Len(cams) > 0 /\ cams[1].serial # <<>> /\ cams[1].serial = s

HasSerial(cams, s) ==
    \E k \in 1..Len(cams) : cams[k].serial # <<>> /\ cams[k].serial = s

\* faulty variant of EmptySlots: the serial.empty() test is missing
EmptySlotsAll(c, cams) ==
    {i \in 0..(Len(cams) - 1) : i < c.maxCameras}

\* the 0-based indexes the fill loop may stop at
EmptySlots(c, cams) ==
    {i \in 0..(Len(cams) - 1) : i < c.maxCameras /\ cams[i + 1].serial = <<>>}

MinOf(S) == CHOOSE x \in S : \A y \in S : x <= y

\* the body of the if in the fill loop, applied to cameras[i]
\* faulty variant of FillSlot: the orient is defaulted but not canonicalised
FillSlotRawOrient(c, cams, i, s) ==
    [cams EXCEPT ![i + 1] =
        [@ EXCEPT !.serial = s,
                  !.orient = IF @ = <<>> THEN DefaultOrientForIndex(i) ELSE @,
                  !.name = IF c.autoNameFromSerial THEN MakeAutoName(c, s, i + 1) ELSE @]]

FillSlot(c, cams, i, s) ==
    [cams EXCEPT ![i + 1] =
        [@ EXCEPT !.serial = s,
                  !.orient = CanonicalOrient(IF @ = <<>> THEN DefaultOrientForIndex(i) ELSE @),
                  !.name = IF c.autoNameFromSerial THEN MakeAutoName(c, s, i + 1) ELSE @]]

\* the record pushed back for a detected serial that found no empty slot
NewCamera(c, cams, s) ==
    [enabled |-> TRUE,
     serial  |-> s,
     orient  |-> DefaultOrientForIndex(Len(cams)),
     mount   |-> c.defaultMount,
     params  |-> c.defaultParams,
     control |-> c.defaultControl,
     name    |-> IF c.autoNameFromSerial
                 THEN MakeAutoName(c, s, Len(cams) + 1)
                 ELSE MakeAutoName(c, <<>>, Len(cams) + 1)]

\* one iteration of the loop over uniqueDetected
\* faulty variant of PlaceOne: filling a slot does not set outChanged
PlaceOneSilentFill(c, st, s) ==
    IF HasSerial(st.cams, s) THEN st
    ELSE IF EmptySlots(c, st.cams) # {}
         THEN [cams |-> FillSlot(c, st.cams, MinOf(EmptySlots(c, st.cams)), s), changed |-> st.changed]
    ELSE IF Len(st.cams) >= c.maxCameras THEN st
    ELSE [cams |-> Append(st.cams, NewCamera(c, st.cams, s)), changed |-> TRUE]

PlaceOne(c, st, s) ==
    IF HasSerial(st.cams, s) THEN st
    ELSE IF EmptySlots(c, st.cams) # {}
         THEN [cams |-> FillSlot(c, st.cams, MinOf(EmptySlots(c, st.cams)), s), changed |-> TRUE]
    ELSE IF Len(st.cams) >= c.maxCameras THEN st
    ELSE [cams |-> Append(st.cams, NewCamera(c, st.cams, s)), changed |-> TRUE]

RECURSIVE PlaceAll(_, _, _)
PlaceAll(c, st, serials) ==
    IF serials = <<>> THEN st
    ELSE PlaceAll(c, PlaceOne(c, st, Head(serials)), Tail(serials))

\* the record pushed back by the padding loop
PadCamera(c, cams) ==
    [enabled |-> TRUE,
     serial  |-> <<>>,
     orient  |-> DefaultOrientForIndex(Len(cams)),
     mount   |-> c.defaultMount,
     params  |-> c.defaultParams,
     control |-> c.defaultControl,
     name    |-> MakeAutoName(c, <<>>, Len(cams) + 1)]

RECURSIVE PadLoop(_, _)
PadLoop(c, st) ==
    IF Len(st.cams) < c.maxCameras
    THEN PadLoop(c, [cams |-> Append(st.cams, PadCamera(c, st.cams)), changed |-> TRUE])
    ELSE st

\* faulty variant of Truncate: the resize does not set outChanged
TruncateSilent(c, st) ==
    IF Len(st.cams) > c.maxCameras
    THEN [cams |-> SubSeq(st.cams, 1, c.maxCameras), changed |-> st.changed]
    ELSE st

\* faulty variant of Truncate: the tail beyond maxCameras is kept
TruncateNever(c, st) == st

Truncate(c, st) ==
    IF Len(st.cams) > c.maxCameras
    THEN [cams |-> SubSeq(st.cams, 1, c.maxCameras), changed |-> TRUE]
    ELSE st

\* everything after the autoAddDetectedCameras test
EnsureBody(c0, detected) ==
    LET c   == [c0 EXCEPT !.maxCameras = ClampMax(@)]
        st1 == DedupOuter(c, [cams |-> c.cameras, changed |-> FALSE], 0)
        st2 == PlaceAll(c, st1, UniqueDetected(detected))
        st3 == Truncate(c, PadLoop(c, st2))
    IN  [cfg |-> [c EXCEPT !.cameras = st3.cams], outChanged |-> st3.changed, ret |-> TRUE]

\* faulty variant of EnsureDetectedCameras: autoAddDetectedCameras is not tested
EnsureIgnoresFlag(c0, detected) == EnsureBody(c0, detected)

EnsureDetectedCameras(c0, detected) ==
    IF ~c0.autoAddDetectedCameras
    THEN [cfg |-> c0, outChanged |-> FALSE, ret |-> TRUE]
    ELSE EnsureBody(c0, detected)


----------------------------------------------------------------------------
(* Text written by SaveIni.  The file is the sequence of its lines, each a *)
(* string without its terminating newline.                                 *)

K_outputDir == <<"o","u","t","p","u","t","D","i","r">>
K_dirPNG == <<"d","i","r","P","N","G">>
K_dirPGM == <<"d","i","r","P","G","M">>
K_dirPLY == <<"d","i","r","P","L","Y">>
K_captureTimeoutMs == <<"c","a","p","t","u","r","e","T","i","m","e","o","u","t","M","s">>
K_maxCameras == <<"m","a","x","C","a","m","e","r","a","s">>
K_autoAddDetectedCameras == <<"a","u","t","o","A","d","d","D","e","t","e","c","t","e","d","C","a","m","e","r","a","s">>
K_autoNameFromSerial == <<"a","u","t","o","N","a","m","e","F","r","o","m","S","e","r","i","a","l">>
K_namePrefix == <<"n","a","m","e","P","r","e","f","i","x">>
K_alturaCamaraM == <<"a","l","t","u","r","a","C","a","m","a","r","a","M">>
K_distHorizArc0M == <<"d","i","s","t","H","o","r","i","z","A","r","c","0","M">>
K_pitchDeg == <<"p","i","t","c","h","D","e","g">>
K_minRangeM == <<"m","i","n","R","a","n","g","e","M">>
K_roiMinXPct == <<"r","o","i","M","i","n","X","P","c","t">>
K_applySpeckleFilter == <<"a","p","p","l","y","S","p","e","c","k","l","e","F","i","l","t","e","r">>
K_exposureUs == <<"e","x","p","o","s","u","r","e","U","s">>
K_gainDb == <<"g","a","i","n","D","b">>
K_enabled == <<"e","n","a","b","l","e","d">>
K_serial == <<"s","e","r","i","a","l">>
K_name == <<"n","a","m","e">>
K_orient == <<"o","r","i","e","n","t">>

N_General == <<"G","e","n","e","r","a","l">>
N_Defaults == <<"D","e","f","a","u","l","t","s">>
N_DefaultsParams == <<"D","e","f","a","u","l","t","s",".","P","a","r","a","m","s">>
N_DefaultsControl == <<"D","e","f","a","u","l","t","s",".","C","o","n","t","r","o","l">>
N_CameraDot == <<"C","a","m","e","r","a",".">>
N_DotParams == <<".","P","a","r","a","m","s">>
N_DotControl == <<".","C","o","n","t","r","o","l">>

CameraSection(i) == N_CameraDot \o to_string(i)

WriteSection(name) == <<(<<"[">> \o name \o <<"]">>)>>

WriteKV(k, v) == <<(k \o <<"=">> \o v)>>
WriteKVNum(k, v) == WriteKV(k, to_string(v))
WriteKVBool(k, v) == WriteKV(k, IF v THEN <<"1">> ELSE <<"0">>)

\* operator<< of a float or a double: the stream's default precision of 6
\* significant digits.  The values of the model are whole numbers.
Precision == 6

RECURSIVE Pow10(_)
Pow10(n) == IF n <= 0 THEN 1 ELSE 10 * Pow10(n - 1)

RECURSIVE StripZeros(_)
StripZeros(s) ==
    IF s # <<>> /\ s[Len(s)] = "0" THEN StripZeros(SubSeq(s, 1, Len(s) - 1)) ELSE s

\* v >= 10^Precision: d.ddddde+XX, rounded to nearest (ties to even), the
\* trailing zeros of the fraction and an empty fraction's point removed
FormatScientific(v) ==
    LET n     == Len(to_string(v))
        scale == Pow10(n - Precision)
        m0    == v \div scale
        r     == v % scale
        m1    == IF 2 * r > scale \/ (2 * r = scale /\ m0 % 2 = 1) THEN m0 + 1 ELSE m0
        carry == m1 = Pow10(Precision)
        m     == IF carry THEN Pow10(Precision - 1) ELSE m1
        x     == IF carry THEN n ELSE n - 1
        d     == to_string(m)
        frac  == StripZeros(SubSeq(d, 2, Precision))
    IN  <<d[1]>> \o (IF frac = <<>> THEN <<>> ELSE <<".">> \o frac) \o
        <<"e", "+">> \o (IF x < 10 THEN <<"0">> ELSE <<>>) \o to_string(x)

RECURSIVE FormatFloat(_)
FormatFloat(v) ==
    IF v < 0 THEN <<"-">> \o FormatFloat(0 - v)
    ELSE IF v < Pow10(Precision) THEN to_string(v)
    ELSE FormatScientific(v)

WriteKVFloat(k, v) == WriteKV(k, FormatFloat(v))

BlankLine == << <<>> >>

SaveMount(m) ==
    WriteKVFloat(K_alturaCamaraM, m.alturaCamaraM) \o
    WriteKVFloat(K_distHorizArc0M, m.distHorizArc0M) \o
    WriteKVFloat(K_pitchDeg, m.pitchDeg)

SaveParams(p) ==
    WriteKVFloat(K_minRangeM, p.minRangeM) \o
    WriteKVNum(K_roiMinXPct, p.roiMinXPct) \o
    WriteKVBool(K_applySpeckleFilter, p.applySpeckleFilter)

SaveControl(c) ==
    WriteKVFloat(K_exposureUs, c.exposureUs) \o
    WriteKVFloat(K_gainDb, c.gainDb)

----------------------------------------------------------------------------
(* Save-time comparison with the fleet defaults.  1e-6 is 1 / Million.     *)

Million == 1000000

Abs(x) == IF x < 0 THEN 0 - x ELSE x
Max2(a, b) == IF a >= b THEN a ELSE b

\* da <= eps * m, with eps = 1 / Million, on whole numbers
NearlyEqualF(a, b) ==
    Abs(a - b) <= Max2(1, Max2(Abs(a), Abs(b))) \div Million

ControlEqual(a, b) ==
    Abs(a.exposureUs - b.exposureUs) <= 1 \div Million /\
    Abs(a.gainDb - b.gainDb) <= 1 \div Million

\* faulty variant of ParamsEqual: only the float field is compared
ParamsEqualFloatOnly(a, b) == NearlyEqualF(a.minRangeM, b.minRangeM)

ParamsEqual(a, b) ==
    NearlyEqualF(a.minRangeM, b.minRangeM) /\
    a.roiMinXPct = b.roiMinXPct /\
    a.applySpeckleFilter = b.applySpeckleFilter

----------------------------------------------------------------------------
(* BBBConfig::SaveIni *)

\* the record pushed back by SaveIni's padding loop
SavePadCamera(c, cams) ==
    [enabled |-> TRUE,
     serial  |-> <<>>,
     mount   |-> c.defaultMount,
     params  |-> c.defaultParams,
     control |-> c.defaultControl,
     orient  |-> DefaultOrientForIndex(Len(cams)),
     name    |-> MakeAutoName(c, <<>>, Len(cams) + 1)]

RECURSIVE SavePadLoop(_, _, _)
SavePadLoop(c, cams, need) ==
    IF need <= 0 THEN cams
    ELSE SavePadLoop(c, Append(cams, SavePadCamera(c, cams)), need - 1)

\* faulty variant of SaveNormalize: maxCameras is not clamped
SaveNormalizeNoClamp(cfgIn) ==
    LET c      == cfgIn
        padded == IF Len(c.cameras) < c.maxCameras
                  THEN SavePadLoop(c, c.cameras, c.maxCameras - Len(c.cameras))
                  ELSE c.cameras
        sized  == IF Len(padded) > c.maxCameras
                  THEN SubSeq(padded, 1, IF c.maxCameras < 0 THEN 0 ELSE c.maxCameras)
                  ELSE padded
    IN  [c EXCEPT !.cameras = sized]

\* the local copy cfg after clamping, padding and resizing
SaveNormalize(cfgIn) ==
    LET c      == [cfgIn EXCEPT !.maxCameras = ClampMax(@)]
        padded == IF Len(c.cameras) < c.maxCameras
                  THEN SavePadLoop(c, c.cameras, c.maxCameras - Len(c.cameras))
                  ELSE c.cameras
        sized  == IF Len(padded) > c.maxCameras
                  THEN SubSeq(padded, 1, c.maxCameras)
                  ELSE padded
    IN  [c EXCEPT !.cameras = sized]

SaveGeneral(c) ==
    WriteSection(N_General) \o
    WriteKV(K_outputDir, c.paths.outputDir) \o
    WriteKV(K_dirPNG, c.paths.dirPNG) \o
    WriteKV(K_dirPGM, c.paths.dirPGM) \o
    WriteKV(K_dirPLY, c.paths.dirPLY) \o
    WriteKVNum(K_captureTimeoutMs, c.paths.captureTimeoutMs) \o
    WriteKVNum(K_maxCameras, c.maxCameras) \o
    WriteKVBool(K_autoAddDetectedCameras, c.autoAddDetectedCameras) \o
    WriteKVBool(K_autoNameFromSerial, c.autoNameFromSerial) \o
    WriteKV(K_namePrefix, c.namePrefix) \o
    BlankLine

SaveDefaults(c) ==
    WriteSection(N_Defaults) \o SaveMount(c.defaultMount) \o BlankLine \o
    WriteSection(N_DefaultsParams) \o SaveParams(c.defaultParams) \o BlankLine \o
    WriteSection(N_DefaultsControl) \o SaveControl(c.defaultControl) \o BlankLine

\* the local copy c of cameras[i] as the device loop writes it
SaveCameraCopy(c, i) ==
    LET c0 == c.cameras[i + 1]
        c1 == [c0 EXCEPT !.orient =
                  CanonicalOrient(IF @ = <<>> THEN DefaultOrientForIndex(i) ELSE @)]
    IN  [c1 EXCEPT !.name =
            IF @ = <<>> /\ c.autoNameFromSerial THEN MakeAutoName(c, c1.serial, i + 1) ELSE @]

\* one iteration of the device loop
SaveCamera(c, i) ==
    LET cam == SaveCameraCopy(c, i) IN
    WriteSection(CameraSection(i)) \o
    WriteKVBool(K_enabled, cam.enabled) \o
    WriteKV(K_serial, cam.serial) \o
    WriteKV(K_name, cam.name) \o
    WriteKV(K_orient, cam.orient) \o
    SaveMount(cam.mount) \o
    BlankLine \o
    (IF ~ParamsEqual(cam.params, c.defaultParams)
     THEN WriteSection(CameraSection(i) \o N_DotParams) \o SaveParams(cam.params) \o BlankLine
     ELSE <<>>) \o
    (IF ~ControlEqual(cam.control, c.defaultControl)
     THEN WriteSection(CameraSection(i) \o N_DotControl) \o SaveControl(cam.control) \o BlankLine
     ELSE <<>>)

RECURSIVE SaveCameras(_, _)
SaveCameras(c, i) ==
    IF i < c.maxCameras THEN SaveCamera(c, i) \o SaveCameras(c, i + 1) ELSE <<>>

\* old: the file before the call; openOk: whether the ofstream opens
SaveIni(old, cfgIn, openOk) ==
    LET c == SaveNormalize(cfgIn) IN
    IF ~openOk THEN [file |-> old, ret |-> FALSE]
    ELSE [file |-> SaveGeneral(c) \o SaveDefaults(c) \o SaveCameras(c, 0), ret |-> TRUE]

----------------------------------------------------------------------------
(* ParseIni: the file's lines into the key map kv, a function from the     *)
(* full keys (section.key, lower case) to the trimmed values.              *)

\* line.find(ch): the 1-based position of the first ch, 0 for npos
Find(line, ch) ==
    IF \E k \in 1..Len(line) : line[k] = ch
    THEN MinOf({k \in 1..Len(line) : line[k] = ch})
    ELSE 0

\* line = line.substr(0, posc) when ch is found
StripComment(line, ch) ==
    IF Find(line, ch) # 0 THEN SubSeq(line, 1, Find(line, ch) - 1) ELSE line

\* faulty variant of Put: a key already in the map keeps its value
PutKeepsFirst(m, full, val) ==
    [k \in (DOMAIN m) \cup {full} |-> IF k \in DOMAIN m THEN m[k] ELSE val]

\* kv[full] = val
Put(m, full, val) ==
    [k \in (DOMAIN m) \cup {full} |-> IF k = full THEN val ELSE m[k]]

\* faulty variant of ParseLine: a line without '=' is stored as a key with
\* an empty value
ParseLineKeepsMalformed(st, line0) ==
    LET line == Trim(StripComment(StripComment(line0, ";"), "#"))
        eq   == Find(line, "=")
        key  == ToLower(Trim(IF eq = 0 THEN line ELSE SubSeq(line, 1, eq - 1)))
        val  == IF eq = 0 THEN <<>> ELSE Trim(SubSeq(line, eq + 1, Len(line)))
        full == IF st.section = <<>> THEN key ELSE st.section \o <<".">> \o key
    IN  IF line = <<>> THEN st
        ELSE IF Len(line) >= 3 /\ line[1] = "[" /\ line[Len(line)] = "]"
        THEN [st EXCEPT !.section = ToLower(Trim(SubSeq(line, 2, Len(line) - 1)))]
        ELSE [st EXCEPT !.kv = Put(st.kv, full, val)]

\* the body of the getline loop; st = [section, kv]
ParseLine(st, line0) ==
    LET line == Trim(StripComment(StripComment(line0, ";"), "#"))
        eq   == Find(line, "=")
        key  == ToLower(Trim(SubSeq(line, 1, eq - 1)))
        val  == Trim(SubSeq(line, eq + 1, Len(line)))
        full == IF st.section = <<>> THEN key ELSE st.section \o <<".">> \o key
    IN  IF line = <<>> THEN st
        ELSE IF Len(line) >= 3 /\ line[1] = "[" /\ line[Len(line)] = "]"
        THEN [st EXCEPT !.section = ToLower(Trim(SubSeq(line, 2, Len(line) - 1)))]
        ELSE IF eq = 0 THEN st
        ELSE [st EXCEPT !.kv = Put(st.kv, full, val)]

\* the getline loop over the lines lo..hi, entered with st: the lines of
\* the first half in order, then, from the state mid they leave, those of
\* the second half
RECURSIVE ParseRange(_, _, _, _)
ParseRange(st, lines, lo, hi) ==
    IF lo > hi THEN st
    ELSE IF lo = hi THEN ParseLine(st, lines[lo])
    ELSE CHOOSE r \in { ParseRange(mid, lines, (lo + hi) \div 2 + 1, hi) :
                          mid \in {ParseRange(st, lines, lo, (lo + hi) \div 2)} } : TRUE

\* the getline loop over the whole file
ParseLines(st, lines) == ParseRange(st, lines, 1, Len(lines))

\* the map after the loop, for a file that opened
ParseIni(lines) == ParseLines([section |-> <<>>, kv |-> <<>>], lines).kv

HasKey(m, k) == ToLower(k) \in DOMAIN m

\* [found, val]: val is out after the call, cur is out before it
GetStr(m, k, cur) ==
    IF ToLower(k) \in DOMAIN m
    THEN [found |-> TRUE, val |-> m[ToLower(k)]]
    ELSE [found |-> FALSE, val |-> cur]

----------------------------------------------------------------------------
(* std::stoi, std::stoll, std::stof and std::stod.  Each skips leading     *)
(* white space, takes the longest prefix that is a number and ignores what *)
(* follows it; std::invalid_argument when no prefix is a number,           *)
(* std::out_of_range when the number does not fit.  Result: [err, val].    *)

DigitVal(ch) == (CHOOSE k \in 1..10 : Digits[k] = ch) - 1

RECURSIVE DigitPrefix(_)
DigitPrefix(s) ==
    IF s # <<>> /\ IsDigit(Head(s)) THEN <<Head(s)>> \o DigitPrefix(Tail(s)) ELSE <<>>

RECURSIVE StripLeadingZeros(_)
StripLeadingZeros(ds) ==
    IF ds # <<>> /\ Head(ds) = "0" THEN StripLeadingZeros(Tail(ds)) ELSE ds

RECURSIVE Value(_)
Value(ds) ==
    IF ds = <<>> THEN 0 ELSE Value(SubSeq(ds, 1, Len(ds) - 1)) * 10 + DigitVal(ds[Len(ds)])

\* a <= b for digit strings of one length
RECURSIVE LexLE(_, _)
LexLE(a, b) ==
    IF a = <<>> THEN TRUE
    ELSE IF DigitVal(Head(a)) # DigitVal(Head(b)) THEN DigitVal(Head(a)) < DigitVal(Head(b))
    ELSE LexLE(Tail(a), Tail(b))

\* the magnitude ds is at most the magnitude limit
Fits(ds, limit) ==
    LET z == StripLeadingZeros(ds) IN
    Len(z) < Len(limit) \/ (Len(z) = Len(limit) /\ LexLE(z, limit))

INT_MAX == <<"2","1","4","7","4","8","3","6","4","7">>
INT_MIN == <<"2","1","4","7","4","8","3","6","4","8">>
LLONG_MAX == <<"9","2","2","3","3","7","2","0","3","6","8","5","4","7","7","5","8","0","7">>
LLONG_MIN == <<"9","2","2","3","3","7","2","0","3","6","8","5","4","7","7","5","8","0","8">>

IsNeg(s) == TrimFront(s) # <<>> /\ Head(TrimFront(s)) = "-"

\* the text after the white space and the optional sign
Unsigned(s) ==
    LET t == TrimFront(s) IN
    IF t # <<>> /\ Head(t) \in {"+", "-"} THEN Tail(t) ELSE t

\* strtol/strtoll with base 10 and the range check of the given limits
ParseInteger(s, max, min) ==
    LET ds  == DigitPrefix(Unsigned(s))
        neg == IsNeg(s)
    IN  IF ds = <<>> THEN [err |-> "invalid_argument", val |-> 0]
        ELSE IF ~Fits(ds, IF neg THEN min ELSE max) THEN [err |-> "out_of_range", val |-> 0]
        ELSE IF neg /\ StripLeadingZeros(ds) = min
             THEN [err |-> "none", val |-> (0 - Value(max)) - 1]
        ELSE [err |-> "none", val |-> IF neg THEN 0 - Value(ds) ELSE Value(ds)]

\* faulty variant of stoi: text that is no number converts to 0
stoiLenient(s) ==
    LET r == ParseInteger(s, INT_MAX, INT_MIN) IN
    IF r.err = "none" THEN r ELSE [err |-> "none", val |-> 0]

stoi(s) == ParseInteger(s, INT_MAX, INT_MIN)

stoll(s) == ParseInteger(s, LLONG_MAX, LLONG_MIN)

\* strtod on decimal text: digits, an optional point and fraction, an
\* optional exponent.  The values of the model are whole numbers: the texts
\* the model reads denote whole numbers.  ip and fp are the digits before
\* and after the point, r1 the text after ip, r2 the text after the
\* fraction, r3 the text after the e.
ExpDigits(r3) == DigitPrefix(IF r3 # <<>> /\ Head(r3) \in {"+", "-"} THEN Tail(r3) ELSE r3)

ExpValue(r3) ==
    IF ExpDigits(r3) = <<>> THEN 0
    ELSE IF r3 # <<>> /\ Head(r3) = "-" THEN 0 - Value(ExpDigits(r3))
    ELSE Value(ExpDigits(r3))

FloatMagnitude(ip, fp, ex) ==
    IF ex - Len(fp) >= 0 THEN Value(ip \o fp) * Pow10(ex - Len(fp))
    ELSE Value(ip \o fp) \div Pow10(0 - (ex - Len(fp)))

FloatExponent(s, ip, fp, r2) ==
    IF ip = <<>> /\ fp = <<>> THEN [err |-> "invalid_argument", val |-> 0]
    ELSE [err |-> "none",
          val |-> IF IsNeg(s)
                  THEN 0 - FloatMagnitude(ip, fp, ExpValue(IF r2 # <<>> /\ Head(r2) \in {"e", "E"}
                                                           THEN Tail(r2) ELSE <<>>))
                  ELSE FloatMagnitude(ip, fp, ExpValue(IF r2 # <<>> /\ Head(r2) \in {"e", "E"}
                                                       THEN Tail(r2) ELSE <<>>))]

FloatFractionDigits(s, ip, r1, fp) == FloatExponent(s, ip, fp, SubSeq(r1, Len(fp) + 2, Len(r1)))

FloatFraction(s, ip, r1) ==
    IF r1 # <<>> /\ Head(r1) = "."
    THEN FloatFractionDigits(s, ip, r1, DigitPrefix(Tail(r1)))
    ELSE FloatExponent(s, ip, <<>>, r1)

FloatInteger(s, u, ip) == FloatFraction(s, ip, SubSeq(u, Len(ip) + 1, Len(u)))

FloatUnsigned(s, u) == FloatInteger(s, u, DigitPrefix(u))

ParseFloat(s) == FloatUnsigned(s, Unsigned(s))

stof(s) == ParseFloat(s)

stod(s) == ParseFloat(s)

----------------------------------------------------------------------------
(* The typed lookups.  Each gives [found, val, err]: found is the return   *)
(* value, val is out after the call (cur is out before it), err names the  *)
(* exception the conversion threw ("none": it returned).                   *)

GetStrE(m, k, cur) ==
    [found |-> GetStr(m, k, cur).found, val |-> GetStr(m, k, cur).val, err |-> "none"]

\* faulty variant of Converted: an absent key resets the field to zero
ConvertedResets(m, k, cur, r) ==
    IF ~HasKey(m, k) THEN [found |-> FALSE, val |-> 0, err |-> "none"]
    ELSE IF r.err # "none" THEN [found |-> FALSE, val |-> cur, err |-> r.err]
    ELSE [found |-> TRUE, val |-> r.val, err |-> "none"]

\* what a conversion r = [err, val] leaves in out
Converted(m, k, cur, r) ==
    IF ~HasKey(m, k) THEN [found |-> FALSE, val |-> cur, err |-> "none"]
    ELSE IF r.err # "none" THEN [found |-> FALSE, val |-> cur, err |-> r.err]
    ELSE [found |-> TRUE, val |-> r.val, err |-> "none"]

\* faulty variant of GetI: built on the lenient conversion
GetILenient(m, k, cur) == Converted(m, k, cur, stoiLenient(GetStr(m, k, <<>>).val))

GetI(m, k, cur) == Converted(m, k, cur, stoi(GetStr(m, k, <<>>).val))

GetU64(m, k, cur) ==
    LET r == stoll(GetStr(m, k, <<>>).val) IN
    Converted(m, k, cur, [r EXCEPT !.val = IF @ < 0 THEN 0 ELSE @])

GetF(m, k, cur) == Converted(m, k, cur, stof(GetStr(m, k, <<>>).val))

GetD(m, k, cur) == Converted(m, k, cur, stod(GetStr(m, k, <<>>).val))

S_1 == <<"1">>
S_true == <<"t","r","u","e">>
S_yes == <<"y","e","s">>
S_on == <<"o","n">>

\* faulty variant of GetB: the value is compared as it is stored
GetBCaseSensitive(m, k, cur) ==
    IF ~HasKey(m, k) THEN [found |-> FALSE, val |-> cur, err |-> "none"]
    ELSE LET v == Trim(GetStr(m, k, <<>>).val) IN
         [found |-> TRUE, val |-> v = S_1 \/ v = S_true \/ v = S_yes \/ v = S_on, err |-> "none"]

GetB(m, k, cur) ==
    IF ~HasKey(m, k) THEN [found |-> FALSE, val |-> cur, err |-> "none"]
    ELSE LET v == ToLower(Trim(GetStr(m, k, <<>>).val)) IN
         [found |-> TRUE, val |-> v = S_1 \/ v = S_true \/ v = S_yes \/ v = S_on, err |-> "none"]

\* the statement that produces r runs only when no exception has escaped
\* before it (e = "none"); otherwise out keeps cur
After(e, r, cur) ==
    IF e = "none" THEN [val |-> r.val, err |-> r.err] ELSE [val |-> cur, err |-> e]

Dot(prefix, k) == prefix \o <<".">> \o k

LoadMount(m, prefix, cur, e) ==
    LET a == After(e, GetF(m, Dot(prefix, K_alturaCamaraM), cur.alturaCamaraM), cur.alturaCamaraM)
        b == After(a.err, GetF(m, Dot(prefix, K_distHorizArc0M), cur.distHorizArc0M), cur.distHorizArc0M)
        c == After(b.err, GetF(m, Dot(prefix, K_pitchDeg), cur.pitchDeg), cur.pitchDeg)
    IN  [val |-> [alturaCamaraM |-> a.val, distHorizArc0M |-> b.val, pitchDeg |-> c.val],
         err |-> c.err]

LoadParams(m, prefix, cur, e) ==
    LET a == After(e, GetF(m, Dot(prefix, K_minRangeM), cur.minRangeM), cur.minRangeM)
        b == After(a.err, GetI(m, Dot(prefix, K_roiMinXPct), cur.roiMinXPct), cur.roiMinXPct)
        c == After(b.err, GetB(m, Dot(prefix, K_applySpeckleFilter), cur.applySpeckleFilter),
                   cur.applySpeckleFilter)
    IN  [val |-> [minRangeM |-> a.val, roiMinXPct |-> b.val, applySpeckleFilter |-> c.val],
         err |-> c.err]

LoadControl(m, prefix, cur, e) ==
    LET a == After(e, GetD(m, Dot(prefix, K_exposureUs), cur.exposureUs), cur.exposureUs)
        b == After(a.err, GetD(m, Dot(prefix, K_gainDb), cur.gainDb), cur.gainDb)
    IN  [val |-> [exposureUs |-> a.val, gainDb |-> b.val], err |-> b.err]

----------------------------------------------------------------------------
(* BBBConfig::LoadIni *)

P_general == <<"g","e","n","e","r","a","l">>
P_defaults == <<"d","e","f","a","u","l","t","s">>
P_defaultsParams == <<"d","e","f","a","u","l","t","s",".","p","a","r","a","m","s">>
P_defaultsControl == <<"d","e","f","a","u","l","t","s",".","c","o","n","t","r","o","l">>
P_cameraDot == <<"c","a","m","e","r","a",".">>
P_params == <<"p","a","r","a","m","s">>
P_control == <<"c","o","n","t","r","o","l">>
K_side == <<"s","i","d","e">>

\* std::string base = "camera." + std::to_string(i)
Base(i) == P_cameraDot \o to_string(i)

\* faulty variant of HasAny: only the serial key marks a slot
HasAnySerialOnly(m, i) == HasKey(m, Dot(Base(i), K_serial))

HasAny(m, i) ==
    \/ HasKey(m, Dot(Base(i), K_serial))
    \/ HasKey(m, Dot(Base(i), K_name))
    \/ HasKey(m, Dot(Base(i), K_enabled))
    \/ HasKey(m, Dot(Base(i), K_orient))
    \/ HasKey(m, Dot(Base(i), K_side))

\* CameraConfig c; and the four assignments that follow it.  enabled0 is
\* the value the declaration of CameraConfig gives to enabled.
LoadCameraInit(out, i, enabled0) ==
    [enabled |-> enabled0,
     serial  |-> <<>>,
     name    |-> <<>>,
     orient  |-> DefaultOrientForIndex(i),
     mount   |-> out.defaultMount,
     params  |-> out.defaultParams,
     control |-> out.defaultControl]

\* faulty variant of LoadCameraRead: the mount, params and control sections
\* are read into a record of their own and replace the defaults whole
LoadCameraReadWhole(m, out, i, c) ==
    LET zeroM  == [alturaCamaraM |-> 0, distHorizArc0M |-> 0, pitchDeg |-> 0]
        zeroP  == [minRangeM |-> 0, roiMinXPct |-> 0, applySpeckleFilter |-> FALSE]
        zeroC  == [exposureUs |-> 0, gainDb |-> 0]
        rm     == LoadMount(m, Base(i), zeroM, "none")
        rp     == LoadParams(m, Dot(Base(i), P_params), zeroP, rm.err)
        rc     == LoadControl(m, Dot(Base(i), P_control), zeroC, rp.err)
        ori    == IF GetStr(m, Dot(Base(i), K_orient), c.orient).found
                  THEN GetStr(m, Dot(Base(i), K_orient), c.orient).val
                  ELSE GetStr(m, Dot(Base(i), K_side), c.orient).val
    IN  [val |-> [enabled |-> GetB(m, Dot(Base(i), K_enabled), c.enabled).val,
                  serial  |-> GetStr(m, Dot(Base(i), K_serial), c.serial).val,
                  name    |-> GetStr(m, Dot(Base(i), K_name), c.name).val,
                  orient  |-> CanonicalOrient(ori),
                  mount   |-> IF rm.val = zeroM THEN c.mount ELSE rm.val,
                  params  |-> IF rp.val = zeroP THEN c.params ELSE rp.val,
                  control |-> IF rc.val = zeroC THEN c.control ELSE rc.val],
         err |-> rc.err]

\* the hasAny branch: the keys of the slot read over c
LoadCameraRead(m, out, i, c) ==
    LET rm     == LoadMount(m, Base(i), c.mount, "none")
        rp     == LoadParams(m, Dot(Base(i), P_params), c.params, rm.err)
        rc     == LoadControl(m, Dot(Base(i), P_control), c.control, rp.err)
        ori    == IF GetStr(m, Dot(Base(i), K_orient), c.orient).found
                  THEN GetStr(m, Dot(Base(i), K_orient), c.orient).val
                  ELSE GetStr(m, Dot(Base(i), K_side), c.orient).val
    IN  [val |-> [enabled |-> GetB(m, Dot(Base(i), K_enabled), c.enabled).val,
                  serial  |-> GetStr(m, Dot(Base(i), K_serial), c.serial).val,
                  name    |-> GetStr(m, Dot(Base(i), K_name), c.name).val,
                  orient  |-> CanonicalOrient(ori),
                  mount   |-> rm.val,
                  params  |-> rp.val,
                  control |-> rc.val],
         err |-> rc.err]

\* faulty variant of LoadCameraFinish: the second name fix is missing
LoadCameraFinishOneFix(out, i, c) ==
    LET c1 == [c EXCEPT !.orient = IF @ = <<>> THEN DefaultOrientForIndex(i) ELSE @]
    IN  [c1 EXCEPT !.name = IF @ = <<>> /\ out.autoNameFromSerial
                            THEN MakeAutoName(out, c1.serial, i + 1) ELSE @]

\* the empty orient and empty name fixes before the push_back
LoadCameraFinish(out, i, c) ==
    LET c1 == [c EXCEPT !.orient = IF @ = <<>> THEN DefaultOrientForIndex(i) ELSE @]
        c2 == [c1 EXCEPT !.name = IF @ = <<>> /\ out.autoNameFromSerial
                                  THEN MakeAutoName(out, c1.serial, i + 1) ELSE @]
    IN  [c2 EXCEPT !.name = IF @ = <<>> THEN MakeAutoName(out, c2.serial, i + 1) ELSE @]

\* if (hasAny) ... else c.enabled = true, applied to the record c0
LoadCameraBranch(m, out, i, c0) ==
    IF HasAny(m, i)
    THEN LoadCameraRead(m, out, i, c0)
    ELSE [val |-> [c0 EXCEPT !.enabled = TRUE], err |-> "none"]

\* the statements after the branch, r = [val, err] being what it left
LoadCameraAfterBranch(out, i, r) == [val |-> LoadCameraFinish(out, i, r.val), err |-> r.err]

\* one iteration of the slot loop up to the push_back: [val, err]
LoadCamera(m, out, i, enabled0) ==
    LoadCameraAfterBranch(out, i, LoadCameraBranch(m, out, i, LoadCameraInit(out, i, enabled0)))

\* the slot loop from i on; st = [cams, err]
RECURSIVE LoadCameras(_, _, _, _, _)
RECURSIVE LoadCamerasPush(_, _, _, _, _, _)

\* the push_back of the record r.val, or the throw r.err
LoadCamerasPush(m, out, st, i, enabled0, r) ==
    IF r.err # "none" THEN [st EXCEPT !.err = r.err]
    ELSE LoadCameras(m, out, [st EXCEPT !.cams = Append(@, r.val)], i + 1, enabled0)

LoadCameras(m, out, st, i, enabled0) ==
    IF st.err # "none" \/ i >= out.maxCameras THEN st
    ELSE LoadCamerasPush(m, out, st, i, enabled0, LoadCamera(m, out, i, enabled0))

\* faulty variant of LoadClamp: maxCameras is taken as the file gives it
LoadClampNone(n) == n

\* the two ifs after the General keys
LoadClamp(n) == IF n < 1 THEN 1 ELSE IF n > 3 THEN 3 ELSE n

\* the General keys, the clamp and the three default records
LoadFleet(m, old) ==
    LET ct == GetU64(m, Dot(P_general, K_captureTimeoutMs), old.paths.captureTimeoutMs)
        mc == After(ct.err, GetI(m, Dot(P_general, K_maxCameras), old.maxCameras), old.maxCameras)
        aa == After(mc.err, GetB(m, Dot(P_general, K_autoAddDetectedCameras),
                                 old.autoAddDetectedCameras), old.autoAddDetectedCameras)
        an == After(aa.err, GetB(m, Dot(P_general, K_autoNameFromSerial),
                                 old.autoNameFromSerial), old.autoNameFromSerial)
        np == After(an.err, GetStrE(m, Dot(P_general, K_namePrefix), old.namePrefix), old.namePrefix)
        dm == LoadMount(m, P_defaults, old.defaultMount, np.err)
        dp == LoadParams(m, P_defaultsParams, old.defaultParams, dm.err)
        dc == LoadControl(m, P_defaultsControl, old.defaultControl, dp.err)
    IN  [val |-> [paths |-> [outputDir |-> GetStr(m, Dot(P_general, K_outputDir), old.paths.outputDir).val,
                             dirPNG |-> GetStr(m, Dot(P_general, K_dirPNG), old.paths.dirPNG).val,
                             dirPGM |-> GetStr(m, Dot(P_general, K_dirPGM), old.paths.dirPGM).val,
                             dirPLY |-> GetStr(m, Dot(P_general, K_dirPLY), old.paths.dirPLY).val,
                             captureTimeoutMs |-> ct.val],
                  maxCameras |-> IF np.err = "none" THEN LoadClamp(mc.val) ELSE mc.val,
                  autoAddDetectedCameras |-> aa.val,
                  autoNameFromSerial |-> an.val,
                  namePrefix |-> np.val,
                  defaultMount |-> dm.val,
                  defaultParams |-> dp.val,
                  defaultControl |-> dc.val,
                  cameras |-> old.cameras],
         err |-> dc.err]

\* the map ParseIni leaves in LoadIni's kv: nothing when the ifstream does
\* not open
ParsedMap(lines, openOk) == IF openOk THEN ParseIni(lines) ELSE <<>>

\* the end of LoadIni, cs = [cams, err] being what the slot loop left
LoadIniLoop(fl, cs) ==
    IF fl.err # "none"
    THEN [out |-> fl.val, ret |-> FALSE, err |-> fl.err]
    ELSE [out |-> [fl.val EXCEPT !.cameras = cs.cams],
          ret |-> cs.err = "none", err |-> cs.err]

\* the statements after ParseIni, fl = [val, err] being what the General
\* and Defaults keys left
LoadIniParsed(m, fl, enabled0) ==
    LoadIniLoop(fl, LoadCameras(m, fl.val, [cams |-> <<>>, err |-> "none"], 0, enabled0))

\* faulty variant of LoadIni: out is reset before ParseIni is tried
LoadIniResetsFirst(old, m, openOk, enabled0) ==
    IF ~openOk THEN [out |-> [old EXCEPT !.cameras = <<>>, !.maxCameras = 1],
                     ret |-> FALSE, err |-> "none"]
    ELSE LoadIniParsed(m, LoadFleet(m, old), enabled0)

\* old: out before the call; m: kv after ParseIni; openOk: whether the
\* ifstream opened.  Result: out after the call, the return value (ret has
\* a meaning only when err = "none") and the exception that escaped.
LoadIni(old, m, openOk, enabled0) ==
    IF ~openOk THEN [out |-> old, ret |-> FALSE, err |-> "none"]
    ELSE LoadIniParsed(m, LoadFleet(m, old), enabled0)

----------------------------------------------------------------------------
(* Inputs: the configurations and detected lists the operations are called *)
(* with.                                                                   *)

SN1 == <<"S","N","1">>
SN2 == <<"S","N","2">>

DefMount == [alturaCamaraM |-> 2, distHorizArc0M |-> 1, pitchDeg |-> 0]
DefParams == [minRangeM |-> 1, roiMinXPct |-> 35, applySpeckleFilter |-> FALSE]
DefControl == [exposureUs |-> 8, gainDb |-> 0]

OtherMount == [alturaCamaraM |-> 3, distHorizArc0M |-> 1, pitchDeg |-> 5]
OtherParams == [minRangeM |-> 1, roiMinXPct |-> 40, applySpeckleFilter |-> TRUE]
OtherControl == [exposureUs |-> 9, gainDb |-> 0]

CamPool ==
    { [enabled |-> FALSE, serial |-> <<>>, name |-> <<"m">>, orient |-> <<>>,
       mount |-> DefMount, params |-> DefParams, control |-> DefControl],
      [enabled |-> FALSE, serial |-> SN1, name |-> <<"c","1">>, orient |-> <<>>,
       mount |-> DefMount, params |-> DefParams, control |-> OtherControl],
      [enabled |-> TRUE, serial |-> SN2, name |-> <<>>, orient |-> <<"D","e","r","e","c","h","a">>,
       mount |-> OtherMount, params |-> OtherParams, control |-> DefControl] }

SeqsUpTo(S, n) == UNION {[1..k -> S] : k \in 0..n}

MaxCamerasValues == {0, 1, 2, 3, 4}

Configs ==
    { [paths |-> [outputDir |-> <<".">>, dirPNG |-> <<"P","N","G">>, dirPGM |-> <<"P","G","M">>,
                  dirPLY |-> <<"P","L","Y">>, captureTimeoutMs |-> 5],
       maxCameras |-> m,
       autoAddDetectedCameras |-> add,
       autoNameFromSerial |-> nm,
       namePrefix |-> <<"C","_">>,
       defaultMount |-> DefMount,
       defaultParams |-> DefParams,
       defaultControl |-> DefControl,
       cameras |-> cs]
      : m \in MaxCamerasValues, add \in BOOLEAN, nm \in BOOLEAN, cs \in SeqsUpTo(CamPool, MaxCams) }

DetLists == SeqsUpTo({<<>>, SN1, SN2}, MaxDet)

----------------------------------------------------------------------------
(* The operations, each as one step *)

Init ==
    /\ cfg \in Configs
    /\ file = <<>>
    /\ op = "init"
    /\ pre = cfg
    /\ det = <<>>
    /\ outChanged = FALSE
    /\ ret = TRUE
    /\ rep = FALSE
    /\ pc = "idle" /\ li = 0 /\ lj = 0 /\ ui = 0 /\ uniqueDetected = <<>>
    /\ kv = <<>> /\ opened = FALSE /\ err = "none"
    /\ at = "none" /\ oi = 0 /\ usedSerials = <<>> /\ act = <<>> /\ calls = <<>>

Ensure(d) ==
    LET r == EnsureDetectedCameras(cfg, d) IN
    /\ cfg' = r.cfg
    /\ outChanged' = r.outChanged
    /\ ret' = r.ret
    /\ pre' = cfg
    /\ det' = d
    /\ rep' = (op = "ensure" /\ det = d)
    /\ op' = "ensure"
    /\ UNCHANGED <<file, locals, loadlocals, mainlocals>>

Save(openOk) ==
    LET r == SaveIni(file, cfg, openOk) IN
    /\ file' = r.file
    /\ ret' = r.ret
    /\ pre' = cfg
    /\ det' = <<>>
    /\ outChanged' = FALSE
    /\ rep' = FALSE
    /\ op' = "save"
    /\ UNCHANGED <<cfg, locals, loadlocals, mainlocals>>

EnsureAny == \E d \in DetLists : Ensure(d)
SaveAny == \E openOk \in BOOLEAN : Save(openOk)

Next == EnsureAny

Spec == Init /\ [][Next]_vars

NextSave == SaveAny

SpecSave == Init /\ [][NextSave]_vars

----------------------------------------------------------------------------
(* LoadIni as one step, on the files below.  A file is put together from   *)
(* a General part, a Defaults part and two camera parts.                   *)

\* texts stored under maxCameras
MaxTexts ==
    { <<"0">>, <<"2">>, <<"7">>, <<"-","1">>, <<"2","x">>, <<"a","b","c">>, <<>> }

\* texts stored under a bool key
BoolTexts ==
    { <<"y","e","s">>, <<"O","n">>, <<"1">>, <<"0">>, <<"n","o">>, <<>>,
      <<"T","R","U","E">>, <<"2">>, <<"o","f","f">> }

GeneralParts ==
    { <<>> }
    \cup { WriteSection(N_General) \o WriteKV(K_maxCameras, t) \o
           WriteKV(K_autoNameFromSerial, <<"1">>) : t \in MaxTexts }
    \cup { WriteSection(N_General) \o WriteKV(K_autoAddDetectedCameras, <<" ">> \o t \o <<" ">>) \o
           WriteKV(K_maxCameras, <<"3">>) : t \in BoolTexts }
    \cup { WriteSection(N_General) \o WriteKV(K_captureTimeoutMs, t) \o
           WriteKV(K_namePrefix, <<"B">>) : t \in { <<"9">>, <<"x","9">>, <<"-","4">> } }
    \cup { \* malformed lines, comments and upper-case names
           << <<"[","G","e","n","e","r","a","l">>,
              <<"#"," ","n","o","t","e">> >> \o
           WriteKV(K_pitchDeg, <<"6">>) \o
           << <<"[","G","E","N","E","R","A","L","]","\r">>,
              <<"m","a","x","C","a","m","e","r","a","s">>,
              <<"M","A","X","C","A","M","E","R","A","S"," ","="," ","2"," ",";","=","9">>,
              <<"]","[">>,
              <<>> >> \o
           WriteKV(K_autoAddDetectedCameras, <<"o","n","#","0">>) }

DefaultsParts ==
    { <<>>,
      WriteSection(N_Defaults) \o WriteKV(K_pitchDeg, <<"4">>) \o
          WriteSection(N_DefaultsParams) \o WriteKV(K_roiMinXPct, <<"5","0">>) \o
          WriteKV(K_applySpeckleFilter, <<"y","e","s">>) \o
          WriteSection(N_DefaultsControl) \o WriteKV(K_exposureUs, <<"7">>),
      WriteSection(N_Defaults) \o WriteKV(K_alturaCamaraM, <<"4">>) \o
          WriteKV(K_pitchDeg, <<"a","b","c">>),
      WriteSection(N_DefaultsParams) \o WriteKV(K_roiMinXPct, <<"1","2",".","5">>) \o
          WriteSection(N_DefaultsControl) \o WriteKV(K_gainDb, <<>>) }

\* the lines of slot 0
Camera0Parts ==
    { <<>>,
      WriteSection(CameraSection(0)) \o WriteKV(K_serial, SN1),
      WriteSection(CameraSection(0)) \o WriteKV(K_name, <<"a">>),
      WriteSection(CameraSection(0)) \o WriteKV(K_enabled, <<"0">>),
      WriteSection(CameraSection(0)) \o WriteKV(K_orient, <<"R","i","g","h","t">>),
      WriteSection(CameraSection(0)) \o WriteKV(K_side, <<"t","o","p">>),
      WriteSection(CameraSection(0)) \o WriteKV(K_pitchDeg, <<"5">>) \o
          WriteSection(CameraSection(0) \o N_DotParams) \o WriteKV(K_roiMinXPct, <<"4","0">>),
      WriteSection(CameraSection(0)) \o WriteKV(K_pitchDeg, <<"a","b","c">>),
      WriteSection(CameraSection(0)) \o WriteKV(K_serial, SN1) \o WriteKV(K_pitchDeg, <<"5">>) \o
          WriteSection(CameraSection(0) \o N_DotParams) \o WriteKV(K_roiMinXPct, <<"4","x">>),
      WriteSection(CameraSection(0)) \o WriteKV(K_serial, SN1) \o WriteKV(K_alturaCamaraM, <<"5">>) \o
          WriteKV(K_pitchDeg, <<"a","b","c">>),
      WriteSection(CameraSection(0)) \o WriteKV(K_enabled, <<"y","e","s">>) \o
          WriteSection(CameraSection(0) \o N_DotControl) \o WriteKV(K_gainDb, <<"1","e","1">>) }

\* the lines of slots 1 and 2
CameraNParts ==
    { <<>>,
      WriteSection(CameraSection(2)) \o WriteKV(K_serial, SN2) \o WriteKV(K_pitchDeg, <<"a","b","c">>),
      WriteSection(CameraSection(1)) \o WriteKV(K_orient, <<" ">>) \o WriteKV(K_side, <<"i","z","q">>) \o
          WriteSection(CameraSection(1) \o N_DotParams) \o WriteKV(K_minRangeM, <<"3">>) }

\* a General part that gives maxCameras = 2 and nothing else
GeneralTwo == WriteSection(N_General) \o WriteKV(K_maxCameras, <<"2">>)

\* a camera part with a marker key and one key of each record
Camera0Full ==
    WriteSection(CameraSection(0)) \o WriteKV(K_serial, SN1) \o WriteKV(K_pitchDeg, <<"5">>) \o
    WriteSection(CameraSection(0) \o N_DotParams) \o WriteKV(K_roiMinXPct, <<"4","0">>) \o
    WriteSection(CameraSection(0) \o N_DotControl) \o WriteKV(K_exposureUs, <<"9">>)

IniFiles ==
    { g \o d \o Camera0Full \o cn :
        g \in GeneralParts, d \in {<<>>}, cn \in CameraNParts }
    \cup
    { g \o d \o c0 \o cn :
        g \in {<<>>, GeneralTwo}, d \in DefaultsParts, c0 \in Camera0Parts, cn \in CameraNParts }

\* BBBAppConfig cfg; as main declares it before LoadIni
FreshConfig ==
    [paths |-> [outputDir |-> <<".">>, dirPNG |-> <<"P","N","G">>, dirPGM |-> <<"P","G","M">>,
                dirPLY |-> <<"P","L","Y">>, captureTimeoutMs |-> 5],
     maxCameras |-> 3,
     autoAddDetectedCameras |-> TRUE,
     autoNameFromSerial |-> TRUE,
     namePrefix |-> <<"C","_">>,
     defaultMount |-> DefMount,
     defaultParams |-> DefParams,
     defaultControl |-> DefControl,
     cameras |-> <<>>]

\* a config that has been in use: no field at its declared value
UsedConfig ==
    [paths |-> [outputDir |-> <<"o">>, dirPNG |-> <<"a">>, dirPGM |-> <<"b">>,
                dirPLY |-> <<"c">>, captureTimeoutMs |-> 6],
     maxCameras |-> 7,
     autoAddDetectedCameras |-> FALSE,
     autoNameFromSerial |-> FALSE,
     namePrefix |-> <<"U">>,
     defaultMount |-> OtherMount,
     defaultParams |-> OtherParams,
     defaultControl |-> OtherControl,
     cameras |-> [k \in 1..4 |-> [enabled |-> FALSE, serial |-> SN2, name |-> <<"u">>,
                                  orient |-> S_top, mount |-> DefMount, params |-> DefParams,
                                  control |-> DefControl]]]

\* the values of out the model calls LoadIni with
LoadOuts == {FreshConfig, UsedConfig}

InitLoad ==
    /\ cfg \in LoadOuts
    /\ file \in IniFiles
    /\ op = "init"
    /\ pre = cfg
    /\ det = <<>>
    /\ outChanged = FALSE
    /\ ret = TRUE
    /\ rep = FALSE
    /\ pc = "idle" /\ li = 0 /\ lj = 0 /\ ui = 0 /\ uniqueDetected = <<>>
    /\ kv = <<>> /\ opened = FALSE /\ err = "none"
    /\ at = "none" /\ oi = 0 /\ usedSerials = <<>> /\ act = <<>> /\ calls = <<>>

\* what the caller sees of the call's result r = [out, ret, err]
LoadReturns(r) == cfg' = r.out /\ ret' = r.ret /\ err' = r.err

\* LoadIni(path, out) with out = into; an escaped exception ends the process
LoadInto(into, openOk, enabled0) ==
    /\ err = "none"
    /\ kv' = ParsedMap(file, openOk)
    /\ LoadReturns(LoadIni(into, kv', openOk, enabled0))
    /\ opened' = openOk
    /\ pre' = cfg
    /\ det' = <<>>
    /\ outChanged' = FALSE
    /\ rep' = FALSE
    /\ op' = "load"
    /\ UNCHANGED <<file, locals, mainlocals>>

Load(openOk, enabled0) == LoadInto(cfg, openOk, enabled0)

LoadAny == \E openOk \in BOOLEAN, enabled0 \in BOOLEAN : Load(openOk, enabled0)

NextLoad == LoadAny

SpecLoad == InitLoad /\ [][NextLoad]_vars

----------------------------------------------------------------------------
(* LoadIni on short files written by hand: section headers and keys in any  *)
(* letter case, blanks, comments, a key given twice, keys above the first   *)
(* header, a header with an empty name, a line that is neither.            *)

MaxLines == 3

LinePool ==
    { <<"[","C","a","m","]">>,
      <<" ","["," ","c","A","M"," ","]"," ",";","x">>,
      <<"[","B","]">>,
      <<"["," ","]">>,
      <<"K","=","1">>,
      <<" ","k"," ","="," ","2"," ","#","c">>,
      <<"n">> }

HandFiles == SeqsUpTo(LinePool, MaxLines)

InitParse ==
    /\ cfg = FreshConfig
    /\ file \in HandFiles
    /\ op = "init"
    /\ pre = cfg
    /\ det = <<>>
    /\ outChanged = FALSE
    /\ ret = TRUE
    /\ rep = FALSE
    /\ pc = "idle" /\ li = 0 /\ lj = 0 /\ ui = 0 /\ uniqueDetected = <<>>
    /\ kv = <<>> /\ opened = FALSE /\ err = "none"
    /\ at = "none" /\ oi = 0 /\ usedSerials = <<>> /\ act = <<>> /\ calls = <<>>

NextParse == LoadAny

SpecParse == InitParse /\ [][NextParse]_vars

----------------------------------------------------------------------------
(* LoadIni once, then any number of EnsureDetectedCameras on what it left,  *)
(* as a process does that reconciles again whenever the detected cameras    *)
(* change.                                                                 *)

LoadOnce == op = "init" /\ LoadAny

EnsureLoaded ==
    /\ op \in {"load", "ensure"} /\ ret = TRUE /\ err = "none"
    /\ EnsureAny

NextFleet == LoadOnce \/ EnsureLoaded

SpecFleet == InitLoad /\ [][NextFleet]_vars

----------------------------------------------------------------------------
(* SaveIni by one process, LoadIni by the next: the configs saved have one *)
(* camera with one params or control field off the fleet defaults.         *)

\* a whole number with seven significant digits
SevenDigits == 1234567

\* params and control of the camera with the one override
Overrides ==
    { [params |-> [DefParams EXCEPT !.minRangeM = 3], control |-> DefControl],
      [params |-> [DefParams EXCEPT !.minRangeM = SevenDigits], control |-> DefControl],
      [params |-> [DefParams EXCEPT !.roiMinXPct = 40], control |-> DefControl],
      [params |-> [DefParams EXCEPT !.applySpeckleFilter = TRUE], control |-> DefControl],
      [params |-> DefParams, control |-> [DefControl EXCEPT !.exposureUs = 9]],
      [params |-> DefParams, control |-> [DefControl EXCEPT !.exposureUs = SevenDigits]],
      [params |-> DefParams, control |-> [DefControl EXCEPT !.gainDb = 2]] }

PlainCamera ==
    [enabled |-> TRUE, serial |-> <<>>, name |-> <<"m">>, orient |-> S_izq,
     mount |-> DefMount, params |-> DefParams, control |-> DefControl]

OverrideCamera(o) ==
    [enabled |-> TRUE, serial |-> SN1, name |-> <<"c","1">>, orient |-> S_der,
     mount |-> DefMount, params |-> o.params, control |-> o.control]

RoundConfigs ==
    { [FreshConfig EXCEPT !.maxCameras = m,
                          !.cameras = [k \in 1..n |-> IF k = p THEN OverrideCamera(o) ELSE PlainCamera]]
      : m \in MaxCamerasValues, n \in 1..MaxCams, p \in 1..MaxCams, o \in Overrides }

InitRound ==
    /\ cfg \in RoundConfigs
    /\ file = <<>>
    /\ op = "init"
    /\ pre = cfg
    /\ det = <<>>
    /\ outChanged = FALSE
    /\ ret = TRUE
    /\ rep = FALSE
    /\ pc = "idle" /\ li = 0 /\ lj = 0 /\ ui = 0 /\ uniqueDetected = <<>>
    /\ kv = <<>> /\ opened = FALSE /\ err = "none"
    /\ at = "none" /\ oi = 0 /\ usedSerials = <<>> /\ act = <<>> /\ calls = <<>>

\* the next process: BBBAppConfig cfg; LoadIni(path, cfg) on the file saved
Reload(openOk, enabled0) ==
    /\ op = "save" /\ ret = TRUE
    /\ LoadInto(FreshConfig, openOk, enabled0)

ReloadAny == \E openOk \in BOOLEAN, enabled0 \in BOOLEAN : Reload(openOk, enabled0)

NextRound == SaveAny \/ ReloadAny

SpecRound == InitRound /\ [][NextRound]_vars

----------------------------------------------------------------------------
(* main from the construction of cfg to the SaveIni that follows the loop   *)
(* over Camera.0..2, one step per call or statement group.  at is main's    *)
(* position; calls lists the calls of LoadIni, SaveIni, DetectStereoSerials,*)
(* EnsureDetectedCameras and OpenBySerial made so far, each with what it    *)
(* returned (outChanged for EnsureDetectedCameras, whether the list is not  *)
(* empty for DetectStereoSerials).  A std::invalid_argument or              *)
(* std::out_of_range that leaves LoadIni is caught nowhere and terminates   *)
(* the process.                                                            *)

\* the file bbb_config.ini found at start
MainFiles ==
    { <<>>,
      GeneralTwo \o Camera0Full,
      WriteSection(N_General) \o WriteKV(K_autoAddDetectedCameras, <<"0">>) \o
          WriteKV(K_maxCameras, <<"2">>) \o
          WriteSection(CameraSection(0)) \o WriteKV(K_serial, SN1) \o
          WriteSection(CameraSection(1)) \o WriteKV(K_serial, SN1),
      WriteSection(CameraSection(0)) \o WriteKV(K_enabled, <<"0">>) \o
          WriteSection(CameraSection(1)) \o WriteKV(K_serial, SN2),
      WriteSection(N_General) \o WriteKV(K_maxCameras, <<"x">>) }

\* GetExeDir().string()
ExeDir == <<"e">>

\* the sorted list without duplicates DetectStereoSerials returns when the
\* stereo cameras with a serial are those of S
DetectStereoSerials(S) ==
    (IF SN1 \in S THEN <<SN1>> ELSE <<>>) \o (IF SN2 \in S THEN <<SN2>> ELSE <<>>)

Called(name, ok) == calls' = Append(calls, [call |-> name, ok |-> ok])

InitMain ==
    /\ cfg = FreshConfig
    /\ file \in MainFiles
    /\ op = "init"
    /\ pre = cfg
    /\ det = <<>>
    /\ outChanged = FALSE
    /\ ret = TRUE
    /\ rep = FALSE
    /\ pc = "idle" /\ li = 0 /\ lj = 0 /\ ui = 0 /\ uniqueDetected = <<>>
    /\ kv = <<>> /\ opened = FALSE /\ err = "none"
    /\ at = "load" /\ oi = 0 /\ usedSerials = <<>> /\ act = <<>> /\ calls = <<>>

\* what main sees of LoadIni's result r = [out, ret, err]
MainLoaded(r) ==
    /\ LoadReturns(r)
    /\ Called("LoadIni", r.err = "none" /\ r.ret)
    /\ at' = IF r.err # "none" THEN "terminated"
             ELSE IF r.ret THEN "clamp" ELSE "fallback"

\* BBBAppConfig cfg; if (!BBBConfig::LoadIni(iniPath.string(), cfg))
MainLoad ==
    /\ at = "load"
    /\ \E openOk \in BOOLEAN, enabled0 \in BOOLEAN :
          /\ kv' = ParsedMap(file, openOk)
          /\ opened' = openOk
          /\ MainLoaded(LoadIni(cfg, kv', openOk, enabled0))
    /\ pre' = cfg /\ op' = "load"
    /\ UNCHANGED <<file, det, outChanged, rep, locals, oi, usedSerials, act>>

\* what main leaves of SaveIni's result r = [file, ret]
MainSaved(r) ==
    /\ file' = r.file /\ ret' = r.ret
    /\ Called("SaveIni", r.ret)

\* one BBBConfig::SaveIni(iniPath.string(), cfg) of main, which goes on at next
MainSaveAt(next) ==
    /\ \E openOk \in BOOLEAN : MainSaved(SaveIni(file, cfg, openOk))
    /\ at' = next
    /\ pre' = cfg /\ op' = "save"
    /\ UNCHANGED <<cfg, det, outChanged, rep, locals, loadlocals, oi, usedSerials, act>>

\* the SaveIni inside if (!LoadIni(...))
MainFallbackSave == at = "fallback" /\ MainSaveAt("clamp")

\* the clamp of maxCameras and the outputDir default
MainClamp ==
    /\ at = "clamp"
    /\ cfg' = [cfg EXCEPT !.maxCameras = ClampMax(@),
                          !.paths.outputDir = IF @ = <<>> \/ @ = <<".">> THEN ExeDir ELSE @]
    /\ at' = "detect"
    /\ UNCHANGED <<file, op, pre, det, outChanged, ret, rep, locals, loadlocals,
                   oi, usedSerials, act, calls>>

\* system->GetCameras(), return 2 when there is none; DetectStereoSerials,
\* return 3 when its list is empty
MainDetect ==
    /\ at = "detect"
    /\ \/ /\ at' = "exit2"
          /\ UNCHANGED <<det, calls>>
       \/ \E S \in SUBSET {SN1, SN2} :
             /\ det' = DetectStereoSerials(S)
             /\ Called("DetectStereoSerials", det' # <<>>)
             /\ at' = IF det' = <<>> THEN "exit3" ELSE "ensure"
    /\ UNCHANGED <<cfg, file, op, pre, outChanged, ret, rep, locals, loadlocals,
                   oi, usedSerials, act>>

\* what main sees of EnsureDetectedCameras' result r = [cfg, outChanged, ret]
MainEnsured(r) ==
    /\ cfg' = r.cfg /\ outChanged' = r.outChanged /\ ret' = r.ret
    /\ Called("EnsureDetectedCameras", r.outChanged)

\* faulty variant of MainEnsure: the SaveIni under if (cfgChanged) is left out
MainEnsureNoSave ==
    /\ at = "ensure"
    /\ MainEnsured(EnsureDetectedCameras(cfg, det))
    /\ at' = "open"
    /\ pre' = cfg /\ op' = "ensure"
    /\ UNCHANGED <<file, det, rep, locals, loadlocals, oi, usedSerials, act>>

\* bool cfgChanged = false; EnsureDetectedCameras(cfg, detected, cfgChanged);
\* if (cfgChanged)
MainEnsure ==
    /\ at = "ensure"
    /\ MainEnsured(EnsureDetectedCameras(cfg, det))
    /\ at' = IF outChanged' THEN "save" ELSE "open"
    /\ pre' = cfg /\ op' = "ensure"
    /\ UNCHANGED <<file, det, rep, locals, loadlocals, oi, usedSerials, act>>

\* the SaveIni under if (cfgChanged)
MainSaveChanged == at = "save" /\ MainSaveAt("open")

\* c.name after if (c.name.empty() && cfg.autoNameFromSerial)
MainName(c, i) ==
    IF c.name = <<>> /\ cfg.autoNameFromSerial THEN MakeAutoName(cfg, c.serial, i + 1) ELSE c.name

\* one iteration of the loop over Camera.0..2; cfg.cameras[i] beyond the end
\* of the vector is undefined
MainOpen ==
    /\ at = "open" /\ oi < cfg.maxCameras
    /\ IF oi >= Len(cfg.cameras)
       THEN /\ at' = "undefined"
            /\ UNCHANGED <<cfg, oi, usedSerials, act, calls>>
       ELSE /\ oi' = oi + 1
            /\ at' = "open"
            /\ IF ~cfg.cameras[oi + 1].enabled
               THEN UNCHANGED <<cfg, usedSerials, act, calls>>
               ELSE IF cfg.cameras[oi + 1].serial = <<>>
               THEN /\ cfg' = [cfg EXCEPT !.cameras[oi + 1].name = MainName(cfg.cameras[oi + 1], oi)]
                    /\ act' = Append(act, [slot |-> oi, available |-> FALSE])
                    /\ UNCHANGED <<usedSerials, calls>>
               ELSE IF Contains(usedSerials, cfg.cameras[oi + 1].serial)
               THEN UNCHANGED <<cfg, usedSerials, act, calls>>
               ELSE /\ cfg' = [cfg EXCEPT !.cameras[oi + 1].name = MainName(cfg.cameras[oi + 1], oi)]
                    /\ \E available \in BOOLEAN :
                          /\ Called("OpenBySerial", available)
                          /\ act' = Append(act, [slot |-> oi, available |-> available])
                          /\ usedSerials' = IF available
                                            THEN Append(usedSerials, cfg.cameras[oi + 1].serial)
                                            ELSE usedSerials
    /\ UNCHANGED <<file, op, pre, det, outChanged, ret, rep, locals, loadlocals>>

\* the SaveIni after the loop
MainFinalSave == at = "open" /\ oi >= cfg.maxCameras /\ MainSaveAt("running")

NextMain ==
    \/ MainLoad
    \/ MainFallbackSave
    \/ MainClamp
    \/ MainDetect
    \/ MainEnsure
    \/ MainSaveChanged
    \/ MainOpen
    \/ MainFinalSave

\* main is one thread that runs on until it returns, terminates or reaches
\* its menu loop
SpecMain == InitMain /\ [][NextMain]_vars /\ WF_vars(NextMain)

----------------------------------------------------------------------------
(* SaveIni by one process, LoadIni by the next, on configs whose serial,    *)
(* name and namePrefix are strings of any content.                         *)

TextPool ==
    { SN1,
      <<"a",";","b">>,
      <<"a","#","b">>,
      <<"a","=","b">>,
      <<" ","a">>,
      <<"a"," ">>,
      <<>> }

TextCameras ==
    { [PlainCamera EXCEPT !.serial = s, !.name = n, !.enabled = e]
      : s \in TextPool, n \in TextPool, e \in BOOLEAN }

TextConfigs ==
    { [FreshConfig EXCEPT !.maxCameras = Len(cs), !.cameras = cs,
                          !.autoNameFromSerial = nm, !.namePrefix = p]
      : cs \in {<<a>> : a \in TextCameras} \cup {<<PlainCamera, a>> : a \in TextCameras},
        nm \in BOOLEAN, p \in {<<"C","_">>, <<" ","p",";">>} }

InitText ==
    /\ cfg \in TextConfigs
    /\ file = <<>>
    /\ op = "init"
    /\ pre = cfg
    /\ det = <<>>
    /\ outChanged = FALSE
    /\ ret = TRUE
    /\ rep = FALSE
    /\ pc = "idle" /\ li = 0 /\ lj = 0 /\ ui = 0 /\ uniqueDetected = <<>>
    /\ kv = <<>> /\ opened = FALSE /\ err = "none"
    /\ at = "none" /\ oi = 0 /\ usedSerials = <<>> /\ act = <<>> /\ calls = <<>>

NextText == SaveAny \/ ReloadAny

SpecText == InitText /\ [][NextText]_vars

----------------------------------------------------------------------------
(* EnsureDetectedCameras on configurations whose records carry the orient   *)
(* strings a caller may have put there: empty, synonyms in any letter case, *)
(* padded with blanks, unrecognised, and blanks only.                      *)

OrientPool ==
    { <<>>,
      <<"I","z","q","u","i","e","r","d","a">>,
      <<"l","e","f","t">>,
      <<"r","i","g","h","t">>,
      <<"c","e","n">>,
      <<" ","T","o","p"," ">>,
      <<"x","y">>,
      <<" ">> }

OrientCams ==
    { [enabled |-> FALSE, serial |-> s, name |-> <<"m">>, orient |-> o,
       mount |-> DefMount, params |-> DefParams, control |-> DefControl]
      : s \in {<<>>, SN1}, o \in OrientPool }

OrientConfigs ==
    { [c EXCEPT !.cameras = cs] :
        c \in {k \in Configs : k.cameras = <<>> /\ k.maxCameras \in {1, 3}},
        cs \in {<<a>> : a \in OrientCams} \cup
               {<<a, b>> : a \in {k \in OrientCams : k.serial = SN1}, b \in OrientCams} }

InitOrient ==
    /\ cfg \in OrientConfigs
    /\ file = <<>>
    /\ op = "init"
    /\ pre = cfg
    /\ det = <<>>
    /\ outChanged = FALSE
    /\ ret = TRUE
    /\ rep = FALSE
    /\ pc = "idle" /\ li = 0 /\ lj = 0 /\ ui = 0 /\ uniqueDetected = <<>>
    /\ kv = <<>> /\ opened = FALSE /\ err = "none"
    /\ at = "none" /\ oi = 0 /\ usedSerials = <<>> /\ act = <<>> /\ calls = <<>>

NextOrient == EnsureAny

SpecOrient == InitOrient /\ [][NextOrient]_vars

----------------------------------------------------------------------------
(* One call of EnsureDetectedCameras, statement by statement.  op is "call" *)
(* while it runs and "ensure" once it has returned; ret is FALSE until the *)
(* return statement sets it.                                               *)

InitRun ==
    /\ cfg \in Configs
    /\ det \in DetLists
    /\ file = <<>>
    /\ op = "call"
    /\ pre = cfg
    /\ outChanged = TRUE
    /\ ret = FALSE
    /\ rep = FALSE
    /\ pc = "entry" /\ li = 0 /\ lj = 0 /\ ui = 0 /\ uniqueDetected = <<>>
    /\ kv = <<>> /\ opened = FALSE /\ err = "none"
    /\ at = "none" /\ oi = 0 /\ usedSerials = <<>> /\ act = <<>> /\ calls = <<>>

Frame == UNCHANGED <<file, pre, det, rep, loadlocals, mainlocals>>

Cams == cfg.cameras
SetCams(cams) == cfg' = [cfg EXCEPT !.cameras = cams]

\* outChanged = false; the autoAddDetectedCameras test; the clamp
RunEntry ==
    /\ pc = "entry"
    /\ outChanged' = FALSE
    /\ IF ~cfg.autoAddDetectedCameras
       THEN /\ ret' = TRUE /\ op' = "ensure" /\ pc' = "done"
            /\ UNCHANGED <<cfg, li>>
       ELSE /\ cfg' = [cfg EXCEPT !.maxCameras = ClampMax(@)]
            /\ li' = 0 /\ pc' = "dedup_i"
            /\ UNCHANGED <<ret, op>>
    /\ UNCHANGED <<lj, ui, uniqueDetected>>
    /\ Frame

\* the test and the head of the body of the outer duplicate loop
RunDedupOuter ==
    /\ pc = "dedup_i"
    /\ IF li >= Len(Cams)
       THEN /\ pc' = "unique" /\ ui' = 0 /\ uniqueDetected' = <<>>
            /\ UNCHANGED <<li, lj>>
       ELSE IF Cams[li + 1].serial = <<>>
       THEN /\ li' = li + 1
            /\ UNCHANGED <<pc, lj, ui, uniqueDetected>>
       ELSE /\ lj' = li + 1 /\ pc' = "dedup_j"
            /\ UNCHANGED <<li, ui, uniqueDetected>>
    /\ UNCHANGED <<cfg, outChanged, ret, op>>
    /\ Frame

\* faulty variant of RunDedupInner: ++j only after a duplicate was cleared
RunDedupInnerNoStep ==
    /\ pc = "dedup_j"
    /\ IF lj >= Len(Cams)
       THEN /\ li' = li + 1 /\ pc' = "dedup_i"
            /\ UNCHANGED <<lj, cfg, outChanged>>
       ELSE IF Cams[lj + 1].serial = Cams[li + 1].serial /\ Cams[lj + 1].serial # <<>>
       THEN /\ SetCams(DedupClear(cfg, Cams, lj))
            /\ outChanged' = TRUE
            /\ lj' = lj + 1
            /\ UNCHANGED <<li, pc>>
       ELSE UNCHANGED <<cfg, outChanged, li, lj, pc>>
    /\ UNCHANGED <<ui, uniqueDetected, ret, op>>
    /\ Frame

\* one iteration of the inner duplicate loop
RunDedupInner ==
    /\ pc = "dedup_j"
    /\ IF lj >= Len(Cams)
       THEN /\ li' = li + 1 /\ pc' = "dedup_i"
            /\ UNCHANGED <<lj, cfg, outChanged>>
       ELSE IF Cams[lj + 1].serial = Cams[li + 1].serial /\ Cams[lj + 1].serial # <<>>
       THEN /\ SetCams(DedupClear(cfg, Cams, lj))
            /\ outChanged' = TRUE
            /\ lj' = lj + 1
            /\ UNCHANGED <<li, pc>>
       ELSE /\ lj' = lj + 1
            /\ UNCHANGED <<cfg, outChanged, li, pc>>
    /\ UNCHANGED <<ui, uniqueDetected, ret, op>>
    /\ Frame

\* one iteration of the loop that builds uniqueDetected
RunUnique ==
    /\ pc = "unique"
    /\ IF ui >= Len(det)
       THEN /\ pc' = "place" /\ ui' = 0
            /\ UNCHANGED uniqueDetected
       ELSE /\ uniqueDetected' = IF det[ui + 1] = <<>> \/ Contains(uniqueDetected, det[ui + 1])
                       THEN uniqueDetected
                       ELSE Append(uniqueDetected, det[ui + 1])
            /\ ui' = ui + 1
            /\ UNCHANGED pc
    /\ UNCHANGED <<cfg, outChanged, ret, op, li, lj>>
    /\ Frame

\* faulty variant of RunPlace: a serial is appended while there is room and
\* the empty slots are only looked for when there is none
RunPlaceAppendFirst ==
    /\ pc = "place"
    /\ IF ui >= Len(uniqueDetected)
       THEN /\ pc' = "pad"
            /\ UNCHANGED <<ui, li>>
       ELSE IF HasSerial(Cams, uniqueDetected[ui + 1])
       THEN /\ ui' = ui + 1
            /\ UNCHANGED <<pc, li>>
       ELSE /\ li' = 0 /\ pc' = IF Len(Cams) < cfg.maxCameras THEN "append" ELSE "fill"
            /\ UNCHANGED ui
    /\ UNCHANGED <<cfg, outChanged, ret, op, lj, uniqueDetected>>
    /\ Frame

\* the head of the loop over uniqueDetected: the HasSerial test
RunPlace ==
    /\ pc = "place"
    /\ IF ui >= Len(uniqueDetected)
       THEN /\ pc' = "pad"
            /\ UNCHANGED <<ui, li>>
       ELSE IF HasSerial(Cams, uniqueDetected[ui + 1])
       THEN /\ ui' = ui + 1
            /\ UNCHANGED <<pc, li>>
       ELSE /\ li' = 0 /\ pc' = "fill"
            /\ UNCHANGED ui
    /\ UNCHANGED <<cfg, outChanged, ret, op, lj, uniqueDetected>>
    /\ Frame

\* one iteration of the loop that looks for an empty slot
RunFill ==
    /\ pc = "fill"
    /\ IF li < Len(Cams) /\ li < cfg.maxCameras
       THEN IF Cams[li + 1].serial = <<>>
            THEN /\ SetCams(FillSlot(cfg, Cams, li, uniqueDetected[ui + 1]))
                 /\ outChanged' = TRUE
                 /\ ui' = ui + 1 /\ pc' = "place"
                 /\ UNCHANGED li
            ELSE /\ li' = li + 1
                 /\ UNCHANGED <<cfg, outChanged, ui, pc>>
       ELSE /\ pc' = "append"
            /\ UNCHANGED <<cfg, outChanged, ui, li>>
    /\ UNCHANGED <<ret, op, lj, uniqueDetected>>
    /\ Frame

\* not placed: the size test and the push_back of a new record
RunAppend ==
    /\ pc = "append"
    /\ IF Len(Cams) >= cfg.maxCameras
       THEN UNCHANGED <<cfg, outChanged>>
       ELSE /\ SetCams(Append(Cams, NewCamera(cfg, Cams, uniqueDetected[ui + 1])))
            /\ outChanged' = TRUE
    /\ ui' = ui + 1 /\ pc' = "place"
    /\ UNCHANGED <<ret, op, li, lj, uniqueDetected>>
    /\ Frame

\* one iteration of the padding loop
RunPad ==
    /\ pc = "pad"
    /\ IF Len(Cams) < cfg.maxCameras
       THEN /\ SetCams(Append(Cams, PadCamera(cfg, Cams)))
            /\ outChanged' = TRUE
            /\ UNCHANGED pc
       ELSE /\ pc' = "truncate"
            /\ UNCHANGED <<cfg, outChanged>>
    /\ UNCHANGED <<ret, op, li, lj, ui, uniqueDetected>>
    /\ Frame

\* the resize and the return
RunTruncate ==
    /\ pc = "truncate"
    /\ IF Len(Cams) > cfg.maxCameras
       THEN /\ SetCams(SubSeq(Cams, 1, cfg.maxCameras))
            /\ outChanged' = TRUE
       ELSE UNCHANGED <<cfg, outChanged>>
    /\ ret' = TRUE /\ op' = "ensure" /\ pc' = "done"
    /\ UNCHANGED <<li, lj, ui, uniqueDetected>>
    /\ Frame

NextRun ==
    \/ RunEntry
    \/ RunDedupOuter
    \/ RunDedupInner
    \/ RunUnique
    \/ RunPlace
    \/ RunFill
    \/ RunAppend
    \/ RunPad
    \/ RunTruncate

\* the call runs on one thread: a statement that can execute does
SpecRun == InitRun /\ [][NextRun]_vars /\ WF_vars(NextRun)

----------------------------------------------------------------------------
(* Vocabulary of the properties *)

AfterEnsure == op = "ensure"
AutoOn == pre.autoAddDetectedCameras
MaxIn == pre.maxCameras
MaxClamped == ClampMax(pre.maxCameras)

\* 0-based slot indexes of a camera list
Slots(cams) == 0..(Len(cams) - 1)

NoDuplicateSerials(cams) ==
    \A i, j \in Slots(cams) :
        (i < j /\ cams[i + 1].serial # <<>>) => cams[i + 1].serial # cams[j + 1].serial

HasDuplicateBelow(cams, n) ==
    \E i, j \in Slots(cams) :
        i < j /\ j < n /\ cams[i + 1].serial # <<>> /\ cams[i + 1].serial = cams[j + 1].serial

\* the distinct non-empty entries of d in first-occurrence order
FirstIdx(d) == {k \in 1..Len(d) : d[k] # <<>> /\ \A l \in 1..(k - 1) : d[l] # d[k]}

RECURSIVE SortedSeq(_)
SortedSeq(S) == IF S = {} THEN <<>> ELSE <<MinOf(S)>> \o SortedSeq(S \ {MinOf(S)})

DistinctFirst(d) == LET idx == SortedSeq(FirstIdx(d)) IN [n \in 1..Len(idx) |-> d[idx[n]]]

\* no non-empty detected serial is missing from the input configuration
NoNewSerial ==
    \A k \in 1..Len(det) :
        det[k] = <<>> \/ \E i \in Slots(pre.cameras) : pre.cameras[i + 1].serial = det[k]

----------------------------------------------------------------------------
(* C1: slot count *)

\* C1 as stated: for every input config whose maxCameras is 1, 2 or 3, after
\* EnsureDetectedCameras the camera list has exactly maxCameras entries.
C1_SlotCountAlways ==
    (AfterEnsure /\ MaxIn \in {1, 2, 3}) => Len(cfg.cameras) = MaxIn

\* C1 amended: the same, for input configs with autoAddDetectedCameras on.
C1_SlotCountAutoOn ==
    (AfterEnsure /\ AutoOn /\ MaxIn \in {1, 2, 3}) => Len(cfg.cameras) = MaxIn

C1_Witness ==
    /\ AfterEnsure /\ AutoOn /\ MaxIn = 1
    /\ Len(pre.cameras) = 2
    /\ Len(cfg.cameras) = 1

----------------------------------------------------------------------------
(* C2: uniqueness of serials *)

\* C2 as stated: for all input configs and detected lists, after
\* EnsureDetectedCameras no two cameras hold the same non-empty serial.
C2_UniqueAlways ==
    AfterEnsure => NoDuplicateSerials(cfg.cameras)

\* C2 amended: the same, for input configs with autoAddDetectedCameras on.
C2_UniqueAutoOn ==
    (AfterEnsure /\ AutoOn) => NoDuplicateSerials(cfg.cameras)

C2_Witness ==
    /\ AfterEnsure /\ AutoOn
    /\ HasDuplicateBelow(pre.cameras, MaxClamped)
    /\ \E k \in 1..Len(det) : det[k] # <<>>
    /\ NoDuplicateSerials(cfg.cameras)

----------------------------------------------------------------------------
(* C3: idempotence *)

\* C3: a second EnsureDetectedCameras with the same detected list, on the
\* result of the first, reports outChanged = false and leaves cfg as it was.
C3_Idempotent ==
    rep => (outChanged = FALSE /\ cfg = pre)

----------------------------------------------------------------------------
(* C4: slot stability *)

\* slot i of the input is assigned and is the first slot holding its serial
StableSlot(i) ==
    /\ i \in Slots(pre.cameras)
    /\ i < MaxClamped
    /\ pre.cameras[i + 1].serial # <<>>
    /\ \A k \in 0..(i - 1) : pre.cameras[k + 1].serial # pre.cameras[i + 1].serial

\* C4: with autoAddDetectedCameras on, every slot below the clamped
\* maxCameras whose input serial is non-empty and differs from every
\* lower slot's serial keeps its whole record, and no other slot ends up
\* holding its serial.
C4_SlotStable ==
    (AfterEnsure /\ AutoOn) =>
        \A i \in Slots(pre.cameras) :
            StableSlot(i) =>
                /\ i \in Slots(cfg.cameras)
                /\ cfg.cameras[i + 1] = pre.cameras[i + 1]
                /\ \A k \in Slots(cfg.cameras) :
                       k # i => cfg.cameras[k + 1].serial # pre.cameras[i + 1].serial

C4_Witness ==
    /\ AfterEnsure /\ AutoOn /\ outChanged
    /\ StableSlot(1)
    /\ pre.cameras[1].serial = <<>>
    /\ cfg.cameras[1].serial # <<>>
    /\ cfg.cameras[2] = pre.cameras[2]

----------------------------------------------------------------------------
(* C5: autoAddDetectedCameras off *)

\* C5: with autoAddDetectedCameras off, EnsureDetectedCameras reports
\* outChanged = false and leaves every field of cfg as it was.
C5_OffIsIdentity ==
    (AfterEnsure /\ ~AutoOn) => (outChanged = FALSE /\ cfg = pre)

C5_Witness ==
    /\ AfterEnsure /\ ~AutoOn
    /\ MaxIn = 4
    /\ Len(pre.cameras) = 2
    /\ HasDuplicateBelow(pre.cameras, 2)
    /\ det = <<SN2, SN1>>
    /\ cfg = pre

----------------------------------------------------------------------------
(* C6: duplicates inside the configuration, earlier slot wins *)

\* slots i < j of the input hold the same non-empty serial, i is the lowest
\* slot holding it and lies below the clamped maxCameras
DupPair(i, j) ==
    /\ i \in Slots(pre.cameras) /\ j \in Slots(pre.cameras) /\ i < j
    /\ i < MaxClamped
    /\ pre.cameras[i + 1].serial # <<>>
    /\ pre.cameras[j + 1].serial = pre.cameras[i + 1].serial
    /\ \A k \in 0..(i - 1) : pre.cameras[k + 1].serial # pre.cameras[i + 1].serial

SlotHolds(j, s) == j \in Slots(cfg.cameras) /\ cfg.cameras[j + 1].serial = s

SlotUnassigned(j) ==
    /\ j \in Slots(cfg.cameras)
    /\ cfg.cameras[j + 1].serial = <<>>
    /\ cfg.cameras[j + 1].name = pre.namePrefix \o S_UNASSIGNED \o to_string(j + 1)
    /\ cfg.cameras[j + 1].enabled = TRUE

\* C6 as stated: slot i keeps the serial, slot j does not hold it,
\* outChanged is true; and when the detected list brings no serial new to
\* the config, slot j ends unassigned with the regenerated name, enabled.
C6_DedupAsStated ==
    (AfterEnsure /\ AutoOn) =>
        \A i, j \in Slots(pre.cameras) :
            DupPair(i, j) =>
                /\ SlotHolds(i, pre.cameras[i + 1].serial)
                /\ ~SlotHolds(j, pre.cameras[i + 1].serial)
                /\ outChanged
                /\ NoNewSerial => SlotUnassigned(j)

\* C6 amended: the last part only for j below the clamped maxCameras (a
\* slot j at or beyond it is removed from the list).
C6_DedupEarlierWins ==
    (AfterEnsure /\ AutoOn) =>
        \A i, j \in Slots(pre.cameras) :
            DupPair(i, j) =>
                /\ SlotHolds(i, pre.cameras[i + 1].serial)
                /\ ~SlotHolds(j, pre.cameras[i + 1].serial)
                /\ outChanged
                /\ (NoNewSerial /\ j < MaxClamped) => SlotUnassigned(j)

C6_Witness ==
    /\ AfterEnsure /\ AutoOn /\ outChanged
    /\ DupPair(0, 1) /\ MaxClamped >= 2 /\ NoNewSerial
    /\ pre.cameras[2].enabled = FALSE
    /\ det # <<>>
    /\ SlotUnassigned(1)

----------------------------------------------------------------------------
(* C7: cap and first-seen order, starting from no cameras *)

\* the first min(k, m) distinct detected serials fill slots 0.. in order,
\* the other slots are unassigned, there are m cameras, outChanged is true
PlacedInOrder(m) ==
    LET u == DistinctFirst(det) IN
    /\ Len(cfg.cameras) = m
    /\ outChanged
    /\ \A i \in 0..(m - 1) :
           cfg.cameras[i + 1].serial = IF i < Len(u) THEN u[i + 1] ELSE <<>>
    /\ \A n \in (m + 1)..Len(u) : \A i \in Slots(cfg.cameras) : cfg.cameras[i + 1].serial # u[n]

\* C7 as stated: for a config with no cameras, autoAddDetectedCameras on
\* and maxCameras = m.
C7_CapAsStated ==
    (AfterEnsure /\ AutoOn /\ pre.cameras = <<>>) => PlacedInOrder(MaxIn)

\* C7 amended: the same for m in 1..3 (another value is clamped first).
C7_CapFirstSeen ==
    (AfterEnsure /\ AutoOn /\ pre.cameras = <<>> /\ MaxIn \in {1, 2, 3}) => PlacedInOrder(MaxIn)

C7_Witness ==
    /\ AfterEnsure /\ AutoOn /\ pre.cameras = <<>> /\ MaxIn = 1
    /\ det = <<SN1, SN2>>
    /\ outChanged
    /\ Len(cfg.cameras) = 1 /\ cfg.cameras[1].serial = SN1

----------------------------------------------------------------------------
(* C8: orientation of appended and padded records *)

\* C8: every record EnsureDetectedCameras adds at index i has the default
\* orientation of i: izq for 0, der for 1, cenital otherwise; no cameras,
\* maxCameras = 3 and detected <<SN1, SN2>> give SN1/izq, SN2/der, -/cenital.
C8_AddedOrient ==
    AfterEnsure =>
        /\ \A i \in Slots(cfg.cameras) :
               i >= Len(pre.cameras) =>
                   cfg.cameras[i + 1].orient =
                       (IF i = 0 THEN S_izq ELSE IF i = 1 THEN S_der ELSE S_cenital)
        /\ (AutoOn /\ pre.cameras = <<>> /\ MaxIn = 3 /\ det = <<SN1, SN2>>) =>
               /\ Len(cfg.cameras) = 3
               /\ cfg.cameras[1].serial = SN1 /\ cfg.cameras[1].orient = S_izq
               /\ cfg.cameras[2].serial = SN2 /\ cfg.cameras[2].orient = S_der
               /\ cfg.cameras[3].serial = <<>> /\ cfg.cameras[3].orient = S_cenital

C8_Witness ==
    /\ AfterEnsure /\ AutoOn /\ pre.cameras = <<>> /\ MaxIn = 3 /\ det = <<SN1, SN2>>
    /\ Len(cfg.cameras) = 3
    /\ cfg.cameras[3].orient = S_cenital

----------------------------------------------------------------------------
(* C10: the camera sections SaveIni writes *)

AfterSave == op = "save" /\ ret = TRUE

\* the line is "[Camera.<digits>]": the header of a camera's identity section
IsIdentityHeader(l) ==
    /\ Len(l) >= 10
    /\ SubSeq(l, 1, 8) = <<"[","C","a","m","e","r","a",".">>
    /\ l[Len(l)] = "]"
    /\ \A k \in 9..(Len(l) - 1) : IsDigit(l[k])

IdentityHeader(i) == <<"[","C","a","m","e","r","a",".">> \o <<Digits[i + 1]>> \o <<"]">>
ParamsHeader(i) ==
    <<"[","C","a","m","e","r","a",".">> \o <<Digits[i + 1]>> \o <<".","P","a","r","a","m","s","]">>
ControlHeader(i) ==
    <<"[","C","a","m","e","r","a",".">> \o <<Digits[i + 1]>> \o <<".","C","o","n","t","r","o","l","]">>

LineOf(l) == CHOOSE k \in 1..Len(file) : file[k] = l

\* the lines of a default unassigned record's identity section for slot i
DefaultBlock(i) ==
    << K_enabled \o <<"=","1">>,
       K_serial \o <<"=">>,
       K_name \o <<"=">> \o pre.namePrefix \o S_UNASSIGNED \o <<Digits[i + 2]>>,
       K_orient \o <<"=">> \o (IF i = 0 THEN S_izq ELSE IF i = 1 THEN S_der ELSE S_cenital),
       K_alturaCamaraM \o <<"=">> \o to_string(pre.defaultMount.alturaCamaraM),
       K_distHorizArc0M \o <<"=">> \o to_string(pre.defaultMount.distHorizArc0M),
       K_pitchDeg \o <<"=">> \o to_string(pre.defaultMount.pitchDeg),
       <<>> >>

\* C10: a SaveIni that opens the file writes exactly clamp(maxCameras, 1, 3)
\* identity sections, Camera.0 .. Camera.(max-1) in this order; slot i of the
\* camera list is written under Camera.i; a slot the list does not have is
\* written as a default unassigned record (enabled, fleet defaults, default
\* orientation of the slot, UNASSIGNED name, no Params or Control section).
C10_SaveSections ==
    AfterSave =>
        /\ SelectSeq(file, IsIdentityHeader) = [n \in 1..MaxClamped |-> IdentityHeader(n - 1)]
        /\ \A i \in 0..(MaxClamped - 1) :
               LET h == LineOf(IdentityHeader(i)) IN
               IF i < Len(pre.cameras)
               THEN file[h + 2] = K_serial \o <<"=">> \o pre.cameras[i + 1].serial
               ELSE /\ SubSeq(file, h + 1, h + 8) = DefaultBlock(i)
                    /\ \A k \in 1..Len(file) :
                           file[k] # ParamsHeader(i) /\ file[k] # ControlHeader(i)

C10_Witness ==
    /\ AfterSave
    /\ MaxIn = 4
    /\ Len(pre.cameras) = 1
    /\ Len(SelectSeq(file, IsIdentityHeader)) = 3
    /\ \E k \in 1..Len(file) : file[k] = K_name \o <<"=">> \o pre.namePrefix \o S_UNASSIGNED \o <<"3">>

----------------------------------------------------------------------------
(* C9: EnsureDetectedCameras is total *)

\* the statement-by-statement run ends in the state the one-step
\* EnsureDetectedCameras computes
RunAgrees ==
    pc = "done" =>
        [cfg |-> cfg, outChanged |-> outChanged, ret |-> ret] = EnsureDetectedCameras(pre, det)

\* C9: for any config (any maxCameras, a camera list of any length) and any
\* detected list (empty strings and duplicates included), the call reaches
\* its return statement and returns true.
C9_Total == <>(pc = "done" /\ ret = TRUE)

C9_Witness ==
    /\ pc = "done" /\ ret = TRUE
    /\ pre.autoAddDetectedCameras
    /\ pre.maxCameras = 0
    /\ Len(pre.cameras) = 2
    /\ det = <<<<>>, SN1>>
    /\ outChanged

----------------------------------------------------------------------------
(* C11: the Params and Control sections SaveIni writes *)

\* two floats differ: not within 1e-6 * max(1, |a|, |b|) of each other
FloatDiffers(a, b) == Abs(a - b) > Max2(1, Max2(Abs(a), Abs(b))) \div Million

\* two doubles differ: farther apart than 1e-6
DoubleDiffers(a, b) == Abs(a - b) > 1 \div Million

ParamsDiffer(a, b) ==
    \/ FloatDiffers(a.minRangeM, b.minRangeM)
    \/ a.roiMinXPct # b.roiMinXPct
    \/ a.applySpeckleFilter # b.applySpeckleFilter

ControlDiffers(a, b) ==
    DoubleDiffers(a.exposureUs, b.exposureUs) \/ DoubleDiffers(a.gainDb, b.gainDb)

\* the params and control of slot i as SaveIni sees them: a slot the list
\* does not have is written with the fleet defaults
SavedParams(i) == IF i < Len(pre.cameras) THEN pre.cameras[i + 1].params ELSE pre.defaultParams
SavedControl(i) == IF i < Len(pre.cameras) THEN pre.cameras[i + 1].control ELSE pre.defaultControl

InFile(l) == \E k \in 1..Len(file) : file[k] = l

\* C11: a SaveIni that opens the file writes, for each slot i below the
\* clamped maxCameras, the section Camera.i.Params exactly when the slot's
\* params differ from defaultParams and the section Camera.i.Control exactly
\* when its control differs from defaultControl, each holding the slot's own
\* values; no such section is written for another index, so a config in
\* which no slot differs gives a file with no Camera.N.Params and no
\* Camera.N.Control section.
C11_DiffSections ==
    AfterSave =>
        /\ \A i \in 0..(MaxClamped - 1) :
               /\ InFile(ParamsHeader(i)) <=> ParamsDiffer(SavedParams(i), pre.defaultParams)
               /\ InFile(ControlHeader(i)) <=> ControlDiffers(SavedControl(i), pre.defaultControl)
               /\ InFile(ParamsHeader(i)) =>
                      SubSeq(file, LineOf(ParamsHeader(i)) + 1, LineOf(ParamsHeader(i)) + 3)
                          = SaveParams(SavedParams(i))
               /\ InFile(ControlHeader(i)) =>
                      SubSeq(file, LineOf(ControlHeader(i)) + 1, LineOf(ControlHeader(i)) + 2)
                          = SaveControl(SavedControl(i))
        /\ \A i \in MaxClamped..9 : ~InFile(ParamsHeader(i)) /\ ~InFile(ControlHeader(i))

C11_Witness ==
    /\ AfterSave
    /\ MaxClamped = 2 /\ Len(pre.cameras) = 2
    /\ pre.cameras[1].params # pre.defaultParams /\ pre.cameras[1].control = pre.defaultControl
    /\ pre.cameras[2].params = pre.defaultParams /\ pre.cameras[2].control # pre.defaultControl
    /\ InFile(ParamsHeader(0)) /\ ~InFile(ControlHeader(0))
    /\ ~InFile(ParamsHeader(1)) /\ InFile(ControlHeader(1))

----------------------------------------------------------------------------
(* C12: SaveIni then LoadIni of a config with one overridden field *)

\* the last two operations were a SaveIni that wrote the file and a LoadIni
\* of it into a fresh config; pre is the config that was saved
AfterReload == op = "load" /\ opened /\ err = "none" /\ ret = TRUE

\* the (slot, field) pairs of the saved config that differ from its defaults
OverriddenFields ==
    { <<i, f>> \in (0..(Len(pre.cameras) - 1)) \X
                   {"minRangeM", "roiMinXPct", "applySpeckleFilter", "exposureUs", "gainDb"} :
        IF f \in {"exposureUs", "gainDb"}
        THEN pre.cameras[i + 1].control[f] # pre.defaultControl[f]
        ELSE pre.cameras[i + 1].params[f] # pre.defaultParams[f] }

\* the saved config has one camera, within the slots SaveIni writes, with
\* one params or control field different from the fleet defaults
OneOverride ==
    /\ Cardinality(OverriddenFields) = 1
    /\ \A x \in OverriddenFields : x[1] < MaxClamped

\* C12: SaveIni of a config with one overridden field followed by LoadIni
\* into a fresh config gives that camera exactly the saved value of the
\* field and the fleet default for every field it did not override.
C12_OverrideRoundTrip ==
    (AfterReload /\ OneOverride) =>
        \A x \in OverriddenFields :
            /\ x[1] < Len(cfg.cameras)
            /\ cfg.cameras[x[1] + 1].params = pre.cameras[x[1] + 1].params
            /\ cfg.cameras[x[1] + 1].control = pre.cameras[x[1] + 1].control

\* the same for configs whose overridden value has at most six significant
\* digits
C12_SixDigits ==
    (AfterReload /\ OneOverride
        /\ \A i \in 1..Len(pre.cameras) :
               pre.cameras[i].params.minRangeM < Pow10(Precision)
               /\ pre.cameras[i].control.exposureUs < Pow10(Precision)) =>
        \A x \in OverriddenFields :
            /\ x[1] < Len(cfg.cameras)
            /\ cfg.cameras[x[1] + 1].params = pre.cameras[x[1] + 1].params
            /\ cfg.cameras[x[1] + 1].control = pre.cameras[x[1] + 1].control

C12_SixDigitsWitness ==
    /\ AfterReload /\ OneOverride
    /\ pre.cameras[1].control.exposureUs = 9
    /\ cfg.cameras[1].control.exposureUs = 9
    /\ cfg.cameras[1].control.gainDb = pre.defaultControl.gainDb

----------------------------------------------------------------------------
(* C13: when LoadIni returns false *)

AfterLoad == op = "load"

\* LoadIni returned (no exception escaped it)
Returned == err = "none"

\* the line as ParseIni looks at it: comments cut off, trimmed
Content(l) == Trim(StripComment(StripComment(l, ";"), "#"))

IsHeaderLine(l) == Len(Content(l)) >= 3 /\ Content(l)[1] = "[" /\ Content(l)[Len(Content(l))] = "]"

\* neither blank, nor a section header, nor a key=value line
Malformed(l) ==
    /\ Content(l) # <<>>
    /\ ~IsHeaderLine(l)
    /\ \A k \in 1..Len(Content(l)) : Content(l)[k] # "="

WellFormed(l) == ~Malformed(l)

\* C13: LoadIni returns false exactly when the file could not be opened;
\* the malformed lines of a file that opened (no '=', unmatched bracket) are
\* skipped: the key map, and with it the outcome of the call, is that of the
\* file without them.
C13_LoadFailsOnlyOnOpen ==
    AfterLoad =>
        /\ (Returned /\ ret = FALSE) <=> ~opened
        /\ opened => kv = ParseIni(SelectSeq(file, WellFormed))

C13_Witness ==
    /\ AfterLoad /\ opened /\ Returned /\ ret = TRUE
    /\ \E k \in 1..Len(file) : Malformed(file[k]) /\ Content(file[k])[1] = "["
    /\ \E k \in 1..Len(file) : Malformed(file[k]) /\ Content(file[k])[1] = "m"
    /\ pre.maxCameras = 7 /\ cfg.maxCameras = 2

----------------------------------------------------------------------------
(* C14: numeric keys whose text is not a number *)

\* the keys of the int and uint64 fields, and of the float and double
\* fields, at fleet level and for slot i
FleetIntKeys ==
    { Dot(P_general, ToLower(K_captureTimeoutMs)), Dot(P_general, ToLower(K_maxCameras)),
      Dot(P_defaultsParams, ToLower(K_roiMinXPct)) }

FleetFloatKeys ==
    { Dot(P_defaults, ToLower(K_alturaCamaraM)), Dot(P_defaults, ToLower(K_distHorizArc0M)),
      Dot(P_defaults, ToLower(K_pitchDeg)), Dot(P_defaultsParams, ToLower(K_minRangeM)),
      Dot(P_defaultsControl, ToLower(K_exposureUs)), Dot(P_defaultsControl, ToLower(K_gainDb)) }

SlotIntKeys(i) == { Dot(Dot(Base(i), P_params), ToLower(K_roiMinXPct)) }

SlotFloatKeys(i) ==
    { Dot(Base(i), ToLower(K_alturaCamaraM)), Dot(Base(i), ToLower(K_distHorizArc0M)),
      Dot(Base(i), ToLower(K_pitchDeg)), Dot(Dot(Base(i), P_params), ToLower(K_minRangeM)),
      Dot(Dot(Base(i), P_control), ToLower(K_exposureUs)),
      Dot(Dot(Base(i), P_control), ToLower(K_gainDb)) }

\* the whole text is an integer: an optional sign and digits
ValidInt(t) == Unsigned(t) # <<>> /\ DigitPrefix(Unsigned(t)) = Unsigned(t)

\* the whole text is a decimal number: digits with an optional point and an
\* optional exponent
ValidFloat(t) ==
    LET u  == Unsigned(t)
        ip == DigitPrefix(u)
        r1 == SubSeq(u, Len(ip) + 1, Len(u))
        fp == IF r1 # <<>> /\ Head(r1) = "." THEN DigitPrefix(Tail(r1)) ELSE <<>>
        r2 == IF r1 # <<>> /\ Head(r1) = "." THEN SubSeq(r1, Len(fp) + 2, Len(r1)) ELSE r1
        r3 == IF r2 # <<>> /\ Head(r2) \in {"+", "-"} THEN Tail(r2) ELSE r2
    IN  /\ ip \o fp # <<>>
        /\ \/ r2 = <<>>
           \/ /\ Head(r2) \in {"e", "E"}
              /\ ValidInt(Tail(r2))

\* some key of the set is in the file with a text the test rejects
BadInt(keys) == \E k \in keys \cap DOMAIN kv : ~ValidInt(kv[k])
BadFloat(keys) == \E k \in keys \cap DOMAIN kv : ~ValidFloat(kv[k])

\* the text does not even start with a number
NoInt(t) == DigitPrefix(Unsigned(t)) = <<>>
NoFloat(t) ==
    /\ DigitPrefix(Unsigned(t)) = <<>>
    /\ ~(Len(Unsigned(t)) >= 2 /\ Head(Unsigned(t)) = "." /\ IsDigit(Unsigned(t)[2]))

\* the slots of the file format
FileSlots == 0..2

\* C14: if the file holds a key of a numeric field whose text is not a valid
\* number, LoadIni does not return: an exception leaves it.
C14_InvalidNumberFails ==
    (AfterLoad /\ opened /\
        (\/ BadInt(FleetIntKeys) \/ BadFloat(FleetFloatKeys)
         \/ \E i \in FileSlots : BadInt(SlotIntKeys(i)) \/ BadFloat(SlotFloatKeys(i))))
    => ~Returned

\* slot i has one of the five marker keys
Marked(i) ==
    \E k \in {K_serial, K_name, K_enabled, K_orient, K_side} : Dot(Base(i), k) \in DOMAIN kv

\* what does hold: a LoadIni that returns has met no text that does not
\* start with a number under a fleet-level numeric key or under a numeric
\* key of a marked slot below maxCameras
C14_NoNumberFails ==
    (AfterLoad /\ opened /\ Returned) =>
        /\ \A k \in FleetIntKeys \cap DOMAIN kv : ~NoInt(kv[k])
        /\ \A k \in FleetFloatKeys \cap DOMAIN kv : ~NoFloat(kv[k])
        /\ \A i \in FileSlots :
               (i < cfg.maxCameras /\ Marked(i)) =>
                   /\ \A k \in SlotIntKeys(i) \cap DOMAIN kv : ~NoInt(kv[k])
                   /\ \A k \in SlotFloatKeys(i) \cap DOMAIN kv : ~NoFloat(kv[k])

C14_NoNumberWitness ==
    /\ AfterLoad /\ opened /\ ~Returned
    /\ err = "invalid_argument"
    /\ Marked(0)
    /\ Dot(Base(0), ToLower(K_pitchDeg)) \in DOMAIN kv
    /\ NoFloat(kv[Dot(Base(0), ToLower(K_pitchDeg))])
    /\ cfg.cameras = <<>>

----------------------------------------------------------------------------
(* C15: bool keys *)

\* the texts that mean true, once trimmed and lower-cased
TrueTexts == { <<"1">>, <<"t","r","u","e">>, <<"y","e","s">>, <<"o","n">> }

MeansTrue(t) == ToLower(Trim(t)) \in TrueTexts

\* the bool keys LoadIni reads when it returns, with the field of out each
\* is read into
BoolReads ==
    { <<Dot(P_general, ToLower(K_autoAddDetectedCameras)), cfg.autoAddDetectedCameras>>,
      <<Dot(P_general, ToLower(K_autoNameFromSerial)), cfg.autoNameFromSerial>>,
      <<Dot(P_defaultsParams, ToLower(K_applySpeckleFilter)), cfg.defaultParams.applySpeckleFilter>> }
    \cup { <<Dot(Base(i), K_enabled), cfg.cameras[i + 1].enabled>> : i \in 0..(Len(cfg.cameras) - 1) }

\* C15: a bool key that is present reads as true exactly when its trimmed,
\* lower-cased value is 1, true, yes or on: "yes", "On" and "1" give true;
\* "0", "no", the empty text and every other text give false.
C15_BoolLookup ==
    (AfterLoad /\ opened /\ Returned) =>
        \A r \in BoolReads :
            r[1] \in DOMAIN kv =>
                /\ r[2] = MeansTrue(kv[r[1]])
                /\ kv[r[1]] \in { <<"y","e","s">>, <<"O","n">>, <<"1">> } => r[2] = TRUE
                /\ kv[r[1]] \in { <<"0">>, <<"n","o">>, <<>> } => r[2] = FALSE

C15_Witness ==
    /\ AfterLoad /\ opened /\ Returned
    /\ Dot(P_general, ToLower(K_autoAddDetectedCameras)) \in DOMAIN kv
    /\ kv[Dot(P_general, ToLower(K_autoAddDetectedCameras))] = <<"O","n">>
    /\ pre.autoAddDetectedCameras = FALSE
    /\ cfg.autoAddDetectedCameras = TRUE

----------------------------------------------------------------------------
(* C16: explicitly configured slots and placeholders *)

SlotKey(i, k) == Dot(Base(i), ToLower(k))
SlotHas(i, k) == SlotKey(i, k) \in DOMAIN kv

\* the default-enabled placeholder of slot i
IsPlaceholder(c, i) ==
    /\ c.enabled = TRUE
    /\ c.serial = <<>>
    /\ c.orient = (IF i = 0 THEN S_izq ELSE IF i = 1 THEN S_der ELSE S_cenital)
    /\ c.mount = cfg.defaultMount
    /\ c.params = cfg.defaultParams
    /\ c.control = cfg.defaultControl

\* the keys of slot i have been read into the record
IsExplicit(c, i) ==
    /\ SlotHas(i, K_serial) => c.serial = kv[SlotKey(i, K_serial)]
    /\ (SlotHas(i, K_name) /\ kv[SlotKey(i, K_name)] # <<>>) => c.name = kv[SlotKey(i, K_name)]
    /\ SlotHas(i, K_enabled) => c.enabled = MeansTrue(kv[SlotKey(i, K_enabled)])
    /\ (SlotHas(i, K_orient) /\ ToLower(kv[SlotKey(i, K_orient)]) = S_right) => c.orient = S_der
    /\ (~SlotHas(i, K_orient) /\ SlotHas(i, K_side) /\ kv[SlotKey(i, K_side)] = S_top)
           => c.orient = S_cenital
    /\ SlotHas(i, K_pitchDeg) => c.mount.pitchDeg = stof(kv[SlotKey(i, K_pitchDeg)]).val
    /\ Dot(Dot(Base(i), P_params), ToLower(K_minRangeM)) \in DOMAIN kv
           => c.params.minRangeM = stof(kv[Dot(Dot(Base(i), P_params), ToLower(K_minRangeM))]).val
    /\ Dot(Dot(Base(i), P_control), ToLower(K_gainDb)) \in DOMAIN kv
           => c.control.gainDb = stod(kv[Dot(Dot(Base(i), P_control), ToLower(K_gainDb))]).val

\* C16: after a LoadIni that returns, slot i holds what its keys say when
\* one of serial, name, enabled, orient, side exists for it; otherwise it is
\* the default-enabled placeholder (enabled, no serial, the slot's default
\* orientation, mount, params and control of the fleet defaults), whatever
\* other keys its sections hold.
C16_MarkerKeys ==
    (AfterLoad /\ opened /\ Returned) =>
        \A i \in 0..(Len(cfg.cameras) - 1) :
            IF Marked(i)
            THEN IsExplicit(cfg.cameras[i + 1], i)
            ELSE IsPlaceholder(cfg.cameras[i + 1], i)

C16_Witness ==
    /\ AfterLoad /\ opened /\ Returned
    /\ Len(cfg.cameras) >= 2
    /\ ~Marked(0) /\ SlotHas(0, K_pitchDeg)
    /\ stof(kv[SlotKey(0, K_pitchDeg)]).val # cfg.defaultMount.pitchDeg
    /\ IsPlaceholder(cfg.cameras[1], 0)
    /\ Marked(1) /\ ~SlotHas(1, K_serial)
    /\ cfg.cameras[2].params.minRangeM = 3 /\ cfg.defaultParams.minRangeM # 3

----------------------------------------------------------------------------
(* C17: defaults are inherited field by field *)

\* the value of a field after LoadIni: the converted text v of key k when
\* the file has k, the value below otherwise
Layered(k, v, below) == IF k \in DOMAIN kv THEN v ELSE below

TextOf(k) == IF k \in DOMAIN kv THEN kv[k] ELSE <<>>

\* mount, params and control as the keys under prefixes pm, pp and pc layer
\* them over the records below
LayeredMount(pm, below) ==
    [alturaCamaraM |-> Layered(Dot(pm, ToLower(K_alturaCamaraM)),
                               stof(TextOf(Dot(pm, ToLower(K_alturaCamaraM)))).val, below.alturaCamaraM),
     distHorizArc0M |-> Layered(Dot(pm, ToLower(K_distHorizArc0M)),
                                stof(TextOf(Dot(pm, ToLower(K_distHorizArc0M)))).val, below.distHorizArc0M),
     pitchDeg |-> Layered(Dot(pm, ToLower(K_pitchDeg)),
                          stof(TextOf(Dot(pm, ToLower(K_pitchDeg)))).val, below.pitchDeg)]

LayeredParams(pp, below) ==
    [minRangeM |-> Layered(Dot(pp, ToLower(K_minRangeM)),
                           stof(TextOf(Dot(pp, ToLower(K_minRangeM)))).val, below.minRangeM),
     roiMinXPct |-> Layered(Dot(pp, ToLower(K_roiMinXPct)),
                            stoi(TextOf(Dot(pp, ToLower(K_roiMinXPct)))).val, below.roiMinXPct),
     applySpeckleFilter |-> Layered(Dot(pp, ToLower(K_applySpeckleFilter)),
                                    MeansTrue(TextOf(Dot(pp, ToLower(K_applySpeckleFilter)))),
                                    below.applySpeckleFilter)]

LayeredControl(pc0, below) ==
    [exposureUs |-> Layered(Dot(pc0, ToLower(K_exposureUs)),
                            stod(TextOf(Dot(pc0, ToLower(K_exposureUs)))).val, below.exposureUs),
     gainDb |-> Layered(Dot(pc0, ToLower(K_gainDb)),
                        stod(TextOf(Dot(pc0, ToLower(K_gainDb)))).val, below.gainDb)]

\* C17: after a LoadIni that returns, every mount, params and control field
\* of a marked slot holds the value of the slot's own key when the file has
\* that key and the fleet default of that field otherwise; the fleet default
\* is the value of the Defaults key when the file has it.  A slot section
\* that gives one field leaves the others at the fleet defaults.
C17_FieldByField ==
    (AfterLoad /\ opened /\ Returned) =>
        /\ cfg.defaultMount = LayeredMount(P_defaults, pre.defaultMount)
        /\ cfg.defaultParams = LayeredParams(P_defaultsParams, pre.defaultParams)
        /\ cfg.defaultControl = LayeredControl(P_defaultsControl, pre.defaultControl)
        /\ \A i \in 0..(Len(cfg.cameras) - 1) :
               Marked(i) =>
                   /\ cfg.cameras[i + 1].mount = LayeredMount(Base(i), cfg.defaultMount)
                   /\ cfg.cameras[i + 1].params =
                          LayeredParams(Dot(Base(i), P_params), cfg.defaultParams)
                   /\ cfg.cameras[i + 1].control =
                          LayeredControl(Dot(Base(i), P_control), cfg.defaultControl)

C17_Witness ==
    /\ AfterLoad /\ opened /\ Returned
    /\ Marked(0)
    /\ SlotHas(0, K_pitchDeg) /\ ~SlotHas(0, K_alturaCamaraM)
    /\ Dot(P_defaults, ToLower(K_pitchDeg)) \in DOMAIN kv
    /\ cfg.cameras[1].mount.pitchDeg = 5 /\ cfg.defaultMount.pitchDeg = 4
    /\ cfg.cameras[1].mount.alturaCamaraM = cfg.defaultMount.alturaCamaraM
    /\ cfg.cameras[1].params.roiMinXPct = 4 /\ cfg.defaultParams.roiMinXPct = 50
    /\ cfg.cameras[1].params.applySpeckleFilter = TRUE /\ pre.defaultParams.applySpeckleFilter = FALSE

----------------------------------------------------------------------------
(* C18: fleet-level numeric fields whose key is absent *)

Absent(p, k) == Dot(p, ToLower(k)) \notin DOMAIN kv

\* the fleet-level numeric fields of c whose key the file does not have
\* agree with those of d (maxCameras: with d's value clamped)
AbsentAgree(c, d) ==
    /\ Absent(P_general, K_captureTimeoutMs) => c.paths.captureTimeoutMs = d.paths.captureTimeoutMs
    /\ Absent(P_general, K_maxCameras) => c.maxCameras = LoadClamp(d.maxCameras)
    /\ Absent(P_defaults, K_alturaCamaraM) => c.defaultMount.alturaCamaraM = d.defaultMount.alturaCamaraM
    /\ Absent(P_defaults, K_distHorizArc0M) => c.defaultMount.distHorizArc0M = d.defaultMount.distHorizArc0M
    /\ Absent(P_defaults, K_pitchDeg) => c.defaultMount.pitchDeg = d.defaultMount.pitchDeg
    /\ Absent(P_defaultsParams, K_minRangeM) => c.defaultParams.minRangeM = d.defaultParams.minRangeM
    /\ Absent(P_defaultsParams, K_roiMinXPct) => c.defaultParams.roiMinXPct = d.defaultParams.roiMinXPct
    /\ Absent(P_defaultsControl, K_exposureUs) => c.defaultControl.exposureUs = d.defaultControl.exposureUs
    /\ Absent(P_defaultsControl, K_gainDb) => c.defaultControl.gainDb = d.defaultControl.gainDb

\* C18 as stated: after a LoadIni that returns true, every fleet-level
\* numeric field whose key is absent holds its declared default, whatever
\* out held before the call.
C18_AbsentIsDefault ==
    (AfterLoad /\ opened /\ Returned /\ ret) => AbsentAgree(cfg, FreshConfig)

\* C18: after a LoadIni that returns true, every fleet-level numeric field
\* whose key is absent holds the value out held before the call (maxCameras
\* that value clamped to 1..3); it is the declared default when out was
\* freshly constructed, as in main.
C18_AbsentKeepsOut ==
    (AfterLoad /\ opened /\ Returned /\ ret) =>
        /\ AbsentAgree(cfg, pre)
        /\ pre = FreshConfig => AbsentAgree(cfg, FreshConfig)

C18_Witness ==
    /\ AfterLoad /\ opened /\ Returned /\ ret
    /\ pre = UsedConfig
    /\ Absent(P_general, K_captureTimeoutMs) /\ cfg.paths.captureTimeoutMs = 6
    /\ Absent(P_general, K_maxCameras) /\ cfg.maxCameras = 3
    /\ ~Absent(P_defaults, K_pitchDeg) /\ cfg.defaultMount.pitchDeg = 4
    /\ Absent(P_defaults, K_alturaCamaraM)
    /\ cfg.defaultMount.alturaCamaraM = OtherMount.alturaCamaraM
    /\ cfg.defaultMount.alturaCamaraM # FreshConfig.defaultMount.alturaCamaraM

C18_FreshWitness ==
    /\ AfterLoad /\ opened /\ Returned /\ ret
    /\ pre = FreshConfig
    /\ Absent(P_general, K_captureTimeoutMs) /\ cfg.paths.captureTimeoutMs = 5
    /\ Absent(P_defaultsControl, K_gainDb) /\ cfg.defaultControl.gainDb = DefControl.gainDb

----------------------------------------------------------------------------
(* C19: maxCameras and the length of the list after LoadIni *)

\* the value the file gives for maxCameras, when it gives one stoi accepts
GivenMax == stoi(TextOf(Dot(P_general, ToLower(K_maxCameras)))).val

GivesMax ==
    /\ ~Absent(P_general, K_maxCameras)
    /\ stoi(TextOf(Dot(P_general, ToLower(K_maxCameras)))).err = "none"

\* C19: after every LoadIni that returns true, maxCameras is in 1..3 (a
\* value of the file below 1 gives 1, one above 3 gives 3, one in between
\* is kept) and cameras has exactly maxCameras records, whatever out.cameras
\* and out.maxCameras held before the call.
C19_ClampAndLength ==
    (AfterLoad /\ opened /\ Returned /\ ret) =>
        /\ cfg.maxCameras \in 1..3
        /\ Len(cfg.cameras) = cfg.maxCameras
        /\ GivesMax =>
               /\ GivenMax < 1 => cfg.maxCameras = 1
               /\ GivenMax > 3 => cfg.maxCameras = 3
               /\ GivenMax \in 1..3 => cfg.maxCameras = GivenMax

\* a file giving 7 loaded into a config that held four records, and a file
\* giving -1: three records and one record
C19_WitnessLow ==
    /\ AfterLoad /\ opened /\ Returned /\ ret
    /\ GivesMax /\ GivenMax = -1 /\ Len(pre.cameras) = 4 /\ Len(cfg.cameras) = 1

C19_Witness ==
    /\ AfterLoad /\ opened /\ Returned /\ ret
    /\ GivesMax /\ GivenMax = 7 /\ Len(pre.cameras) = 4 /\ Len(cfg.cameras) = 3

----------------------------------------------------------------------------
(* C20: fill before append *)

\* the step of the loop over uniqueDetected that writes a serial into a
\* slot, and the step that pushes a new record back
FillStep == pc = "fill" /\ pc' = "place" /\ cfg' # cfg
AppendStep == pc = "append" /\ cfg' # cfg

\* the list when the loop over uniqueDetected starts: the duplicate loop
\* and the loop itself up to its first push_back keep its length
AtLoopStart == DedupOuter(cfg, [cams |-> pre.cameras, changed |-> FALSE], 0).cams
NoAppendYet == Len(Cams) = Len(pre.cameras)

\* step 5 for every serial: each serial not in the list goes to the lowest
\* empty slot below maxCameras, while there is one
RECURSIVE FillPass(_, _, _)
FillPass(c, cams, serials) ==
    IF serials = <<>> THEN cams
    ELSE IF ~HasSerial(cams, Head(serials)) /\ EmptySlots(c, cams) # {}
         THEN FillPass(c, FillSlot(c, cams, MinOf(EmptySlots(c, cams)), Head(serials)),
                       Tail(serials))
         ELSE FillPass(c, cams, Tail(serials))

\* step 6 for the rest: each serial still not in the list gets a new
\* record, while the list is shorter than maxCameras
RECURSIVE AppendPass(_, _, _)
AppendPass(c, cams, serials) ==
    IF serials = <<>> THEN cams
    ELSE IF ~HasSerial(cams, Head(serials)) /\ Len(cams) < c.maxCameras
         THEN AppendPass(c, Append(cams, NewCamera(c, cams, Head(serials))), Tail(serials))
         ELSE AppendPass(c, cams, Tail(serials))

TwoPasses(c, cams, serials) == AppendPass(c, FillPass(c, cams, serials), serials)

LoopEnded == pc = "place" /\ ui >= Len(uniqueDetected)

\* C20: a step that places a detected serial in a slot takes the lowest
\* empty-serial slot below maxCameras, and no record has been appended
\* before it; a record is appended only when there is no such slot and the
\* list is shorter than maxCameras; and when the loop over the detected
\* serials ends, the list is the one that filling for all serials and then
\* appending for the rest gives.
C20_FillBeforeAppend ==
    /\ [][/\ FillStep =>
                /\ EmptySlots(cfg, Cams) # {}
                /\ li = MinOf(EmptySlots(cfg, Cams))
                /\ Cams' = FillSlot(cfg, Cams, li, uniqueDetected[ui + 1])
                /\ NoAppendYet
          /\ AppendStep =>
                /\ EmptySlots(cfg, Cams) = {}
                /\ Len(Cams) < cfg.maxCameras]_vars
    /\ [](LoopEnded => Cams = TwoPasses(cfg, AtLoopStart, uniqueDetected))

\* SN1 filled the empty slot 0, then SN2 was appended
C20_Witness ==
    /\ LoopEnded
    /\ Len(pre.cameras) = 1 /\ pre.cameras[1].serial = <<>>
    /\ Len(Cams) = 2
    /\ Cams[1].serial = SN1 /\ Cams[2].serial = SN2

----------------------------------------------------------------------------
(* C21: a list of another length than maxCameras sets outChanged *)

\* no serial is cleared and none is placed: the input has no duplicate
\* serial and every detected serial is already in it
NoSerialWork == NoDuplicateSerials(pre.cameras) /\ NoNewSerial

\* C21: with autoAddDetectedCameras on, a call whose input list is not of
\* the clamped maxCameras length returns outChanged = true; the padding of
\* a short list and the resize of a long one each set it, also when no
\* serial is cleared or placed.
C21_LengthChangeFlagged ==
    (AfterEnsure /\ AutoOn /\ Len(pre.cameras) # MaxClamped) =>
        /\ outChanged
        /\ Len(cfg.cameras) = MaxClamped

\* a long list resized with no serial work
C21_Witness ==
    /\ AfterEnsure /\ AutoOn /\ NoSerialWork
    /\ Len(pre.cameras) > MaxClamped
    /\ cfg.cameras = SubSeq(pre.cameras, 1, MaxClamped)
    /\ outChanged

\* a short list padded with no serial work
C21_WitnessPad ==
    /\ AfterEnsure /\ AutoOn /\ NoSerialWork
    /\ Len(pre.cameras) < MaxClamped
    /\ SubSeq(cfg.cameras, 1, Len(pre.cameras)) = pre.cameras
    /\ outChanged

----------------------------------------------------------------------------
(* C22: only the distinct non-empty detected serials count *)

\* the call made with the detected list reduced to its distinct non-empty
\* serials in the order of their first occurrence
Reduced == EnsureDetectedCameras(pre, DistinctFirst(det))

\* C22: a call gives the same configuration and the same outChanged as the
\* call on the same configuration with the empty strings and the later
\* duplicates taken out of the detected list.
C22_ReducedListSameResult ==
    AfterEnsure =>
        /\ cfg = Reduced.cfg
        /\ outChanged = Reduced.outChanged
        /\ ret = Reduced.ret

\* a list with an empty string in front of a serial that is placed
C22_Witness ==
    /\ AfterEnsure /\ AutoOn
    /\ Len(det) = 2 /\ det[1] = <<>> /\ det[2] # <<>>
    /\ ~HasSerial(pre.cameras, det[2])
    /\ HasSerial(cfg.cameras, det[2])
    /\ outChanged

\* a list naming one serial twice, the serial being placed once
C22_WitnessDuplicate ==
    /\ AfterEnsure /\ AutoOn
    /\ Len(det) = 2 /\ det[1] = det[2] /\ det[1] # <<>>
    /\ ~HasSerial(pre.cameras, det[1])
    /\ Cardinality({i \in Slots(cfg.cameras) : cfg.cameras[i + 1].serial = det[1]}) = 1

----------------------------------------------------------------------------
(* C23: the orient of a slot that is given a detected serial *)

\* slot i had no serial before the call and holds a serial after it
Assigned(i) ==
    /\ i \in Slots(pre.cameras) /\ i \in Slots(cfg.cameras)
    /\ pre.cameras[i + 1].serial = <<>>
    /\ cfg.cameras[i + 1].serial # <<>>

CanonicalTokens == {S_izq, S_der, S_cenital}

Synonyms ==
    {S_izq, S_izquierda, S_left, S_der, S_derecha, S_right, S_cen, S_cenital, S_top}

\* what the spec calls canonical: non-empty, and a synonym only in the form
\* of its token (an unrecognised string is kept as it is)
Canonical(o) == o # <<>> /\ (o \in Synonyms => o \in CanonicalTokens)

OrientRule(i) ==
    LET before == pre.cameras[i + 1].orient
        after  == cfg.cameras[i + 1].orient
    IN  /\ Canonical(after)
        /\ before = <<>> => after = DefaultOrientForIndex(i)
        /\ ToLower(Trim(before)) \in {S_izq, S_izquierda, S_left} => after = S_izq
        /\ ToLower(Trim(before)) \in {S_der, S_derecha, S_right} => after = S_der
        /\ ToLower(Trim(before)) \in {S_cen, S_cenital, S_top} => after = S_cenital

\* C23: for any input configuration, a slot without a serial that is given
\* a detected serial has afterwards a non-empty canonical orient: the
\* slot-index default for an empty orient, the token for a synonym.
C23_AssignedOrientCanonical ==
    (AfterEnsure /\ AutoOn) => \A i \in Slots(pre.cameras) : Assigned(i) => OrientRule(i)

\* the same for the slots whose orient is not made of blanks only
C23_UnlessBlank ==
    (AfterEnsure /\ AutoOn) =>
        \A i \in Slots(pre.cameras) :
            (Assigned(i) /\ (pre.cameras[i + 1].orient = <<>> \/ Trim(pre.cameras[i + 1].orient) # <<>>))
                => OrientRule(i)

\* a synonym in mixed case replaced by its token
C23_Witness ==
    /\ AfterEnsure /\ AutoOn /\ Assigned(0)
    /\ pre.cameras[1].orient = <<"I","z","q","u","i","e","r","d","a">>
    /\ cfg.cameras[1].orient = S_izq

\* an orient of one blank: the slot is left with an empty orient
C23_BlankWitness ==
    /\ AfterEnsure /\ AutoOn /\ Assigned(0)
    /\ pre.cameras[1].orient = <<" ">>
    /\ cfg.cameras[1].orient = <<>>

----------------------------------------------------------------------------
(* C27: outChanged against the difference between input and result *)

\* a configuration without its maxCameras field
WithoutMax(c) == [c EXCEPT !.maxCameras = 0]

\* C27 as stated: outChanged is true exactly when the configuration after
\* the call differs from the one before it in some field, maxCameras
\* included; outChanged = false means the configuration is the input.
C27_ChangedIffDiffers ==
    AfterEnsure => (outChanged <=> cfg # pre)

\* C27, amended: outChanged is true exactly when the camera list after the
\* call differs from the one before it (no other field but maxCameras is
\* written); with outChanged = false the configuration is the input with
\* maxCameras clamped to 1..3 when autoAddDetectedCameras is on, and the
\* input itself when it is off.
C27_ChangedIffCamerasDiffer ==
    AfterEnsure =>
        /\ outChanged <=> cfg.cameras # pre.cameras
        /\ WithoutMax(cfg) = [WithoutMax(pre) EXCEPT !.cameras = cfg.cameras]
        /\ cfg.maxCameras = IF AutoOn THEN MaxClamped ELSE MaxIn

\* outChanged = false on a configuration that needs no work: nothing differs
C27_Witness ==
    /\ AfterEnsure /\ AutoOn /\ ~outChanged
    /\ det # <<>> /\ pre.cameras # <<>>
    /\ cfg = pre

\* outChanged = true and only one slot's serial differs
C27_WitnessChanged ==
    /\ AfterEnsure /\ AutoOn /\ outChanged
    /\ Len(cfg.cameras) = Len(pre.cameras)
    /\ cfg.cameras # pre.cameras
    /\ cfg.maxCameras = pre.maxCameras

\* outChanged = false although maxCameras was clamped
C27_ClampWitness ==
    /\ AfterEnsure /\ AutoOn /\ ~outChanged
    /\ cfg.maxCameras # pre.maxCameras
    /\ cfg.cameras = pre.cameras

----------------------------------------------------------------------------
(* C28: no detected serial left out while a slot has no serial *)

FreeSlotLeft ==
    \E i \in Slots(cfg.cameras) : i < cfg.maxCameras /\ cfg.cameras[i + 1].serial = <<>>

AllDetectedHeld ==
    \A k \in 1..Len(det) : det[k] # <<>> => HasSerial(cfg.cameras, det[k])

\* C28: with autoAddDetectedCameras on, for every input configuration and
\* detected list, if a slot below maxCameras has no serial after the call
\* then every non-empty detected serial is the serial of some slot.
C28_NoneDroppedWhileFree ==
    (AfterEnsure /\ AutoOn /\ FreeSlotLeft) => AllDetectedHeld

\* the same for input lists of at most maxCameras records
C28_NoneDroppedNoTail ==
    (AfterEnsure /\ AutoOn /\ Len(pre.cameras) <= MaxClamped /\ FreeSlotLeft) => AllDetectedHeld

\* a detected serial held only by a record beyond maxCameras: the record is
\* dropped and slot 0 is left without a serial
C28_TailWitness ==
    /\ AfterEnsure /\ AutoOn /\ FreeSlotLeft
    /\ Len(pre.cameras) > MaxClamped
    /\ \E k \in 1..Len(det) :
          /\ det[k] # <<>>
          /\ HasSerial(pre.cameras, det[k])
          /\ ~HasSerial(cfg.cameras, det[k])

\* a slot left without a serial with every detected serial held
C28_Witness ==
    /\ AfterEnsure /\ AutoOn /\ FreeSlotLeft
    /\ Len(pre.cameras) <= MaxClamped
    /\ \E k \in 1..Len(det) : det[k] # <<>> /\ ~HasSerial(pre.cameras, det[k])
    /\ AllDetectedHeld

----------------------------------------------------------------------------
(* C25: section scoping, letter case and repeated keys in the parser *)

\* a line as the parser looks at it: comments cut off, blanks trimmed
Clean(l) == Trim(StripComment(StripComment(l, ";"), "#"))

IsHeader(l) == Len(Clean(l)) >= 3 /\ Clean(l)[1] = "[" /\ Clean(l)[Len(Clean(l))] = "]"
IsKeyValue(l) == Clean(l) # <<>> /\ ~IsHeader(l) /\ Find(Clean(l), "=") # 0

HeaderName(l) == ToLower(Trim(SubSeq(Clean(l), 2, Len(Clean(l)) - 1)))
KeyOf(l) == ToLower(Trim(SubSeq(Clean(l), 1, Find(Clean(l), "=") - 1)))
ValOf(l) == Trim(SubSeq(Clean(l), Find(Clean(l), "=") + 1, Len(Clean(l))))

KeyValueLines(f) == {n \in 1..Len(f) : IsKeyValue(f[n])}
HeadersAbove(f, n) == {h \in 1..(n - 1) : IsHeader(f[h])}
LastOf(S) == CHOOSE h \in S : \A g \in S : g <= h

\* the name of the most recent header above line n, <<>> when there is none
SectionAt(f, n) ==
    IF HeadersAbove(f, n) = {} THEN <<>> ELSE HeaderName(f[LastOf(HeadersAbove(f, n))])

\* the full key as the claim states it: bare only when no header precedes
StatedFull(f, n) ==
    IF HeadersAbove(f, n) = {} THEN KeyOf(f[n])
    ELSE SectionAt(f, n) \o <<".">> \o KeyOf(f[n])

\* the full key with the bare form also under a header whose name is empty
ScopedFull(f, n) ==
    IF SectionAt(f, n) = <<>> THEN KeyOf(f[n])
    ELSE SectionAt(f, n) \o <<".">> \o KeyOf(f[n])

\* a key in the other letter case
UpperOf == [c \in {Lower[k] : k \in 1..26} |-> Upper[CHOOSE k \in 1..26 : Lower[k] = c]]
SwapCase(s) ==
    [k \in 1..Len(s) |-> IF s[k] \in DOMAIN UpperOf THEN UpperOf[s[k]] ELSE tolower(s[k])]

AfterParse == op = "load" /\ opened

\* line n is the last key=value line of the file with its full key
LastWithKey(n, full) ==
    \A o \in KeyValueLines(file) : o > n => full[o] # full[n]

\* the map holds exactly the full keys, each with the value of its last
\* line, and a lookup in any letter case finds it
Scoping(full) ==
    /\ DOMAIN kv = {full[n] : n \in KeyValueLines(file)}
    /\ \A n \in KeyValueLines(file) :
          LastWithKey(n, full) =>
              /\ kv[full[n]] = ValOf(file[n])
              /\ HasKey(kv, SwapCase(full[n]))
              /\ HasKey(kv, full[n])
              /\ GetStr(kv, SwapCase(full[n]), <<"?">>) = [found |-> TRUE, val |-> ValOf(file[n])]

\* C25 as stated: a key=value line is stored under the lower-cased
\* section + "." + key of the most recent header above it, under the bare
\* lower-cased key when no header precedes it; lookups are blind to letter
\* case and the last occurrence of a full key gives the value.
C25_StatedScoping ==
    AfterParse => Scoping([n \in 1..Len(file) |-> StatedFull(file, n)])

\* C25, amended: the bare key is also used when the most recent header has
\* an empty name.
C25_Scoping ==
    AfterParse => Scoping([n \in 1..Len(file) |-> ScopedFull(file, n)])

\* a key under a header, given twice in different letter case, the second
\* value being the one kept
C25_Witness ==
    /\ AfterParse
    /\ Len(file) = 3
    /\ file[1] = <<" ","[", " ","c","A","M"," ","]"," ",";","x">>
    /\ file[2] = <<"K","=","1">>
    /\ file[3] = <<" ","k"," ","="," ","2"," ","#","c">>
    /\ kv = (<<"c","a","m",".","k">> :> <<"2">>)

\* a key above the first header and the same key under a later header
C25_WitnessScopes ==
    /\ AfterParse
    /\ file = << <<"K","=","1">>, <<"[","C","a","m","]">>, <<"K","=","1">> >>
    /\ DOMAIN kv = {<<"k">>, <<"c","a","m",".","k">>}

\* a key under a header with an empty name is stored bare
C25_EmptyNameWitness ==
    /\ AfterParse
    /\ file = << <<"[","C","a","m","]">>, <<"[", " ", "]">>, <<"K","=","1">> >>
    /\ kv = (<<"k">> :> <<"1">>)

----------------------------------------------------------------------------
(* C24: orient and name of every record after LoadIni and the calls that   *)
(* follow it                                                               *)

Loaded == op \in {"load", "ensure"} /\ ret = TRUE /\ err = "none"

\* C24: after a LoadIni that returned true and any sequence of
\* EnsureDetectedCameras on its result, every record of cfg.cameras has a
\* non-empty orient and a non-empty name.
C24_OrientAndNameNonEmpty ==
    Loaded => \A i \in Slots(cfg.cameras) :
                  cfg.cameras[i + 1].orient # <<>> /\ cfg.cameras[i + 1].name # <<>>

\* after a second call: a slot the file gave no name and a blank orient,
\* holding a detected serial
C24_Witness ==
    /\ op = "ensure" /\ rep /\ outChanged = FALSE
    /\ ~HasKey(kv, <<"c","a","m","e","r","a",".","1",".","n","a","m","e">>)
    /\ HasKey(kv, <<"c","a","m","e","r","a",".","1",".","o","r","i","e","n","t">>)
    /\ Len(cfg.cameras) >= 2
    /\ cfg.cameras[2].serial # <<>>
    /\ cfg.cameras[2].orient # <<>> /\ cfg.cameras[2].name # <<>>

----------------------------------------------------------------------------
(* C26: the order of the calls main makes at start *)

CallAt(k, name) == k \in 1..Len(calls) /\ calls[k].call = name

\* LoadIni is the first call
LoadFirst == calls # <<>> => CallAt(1, "LoadIni")

\* a LoadIni that returned false is followed directly by SaveIni
FallbackNext ==
    \A k \in 1..Len(calls) :
        (CallAt(k, "LoadIni") /\ ~calls[k].ok /\ k < Len(calls)) => CallAt(k + 1, "SaveIni")

\* EnsureDetectedCameras comes after LoadIni and after DetectStereoSerials
EnsureAfterBoth ==
    \A k \in 1..Len(calls) :
        CallAt(k, "EnsureDetectedCameras") =>
            /\ \E l \in 1..(k - 1) : CallAt(l, "LoadIni")
            /\ \E d \in 1..(k - 1) : CallAt(d, "DetectStereoSerials") /\ calls[d].ok

\* between an EnsureDetectedCameras that set cfgChanged and any OpenBySerial
\* there is a SaveIni
SavedBeforeOpen ==
    \A e, o \in 1..Len(calls) :
        (e < o /\ CallAt(e, "EnsureDetectedCameras") /\ calls[e].ok /\ CallAt(o, "OpenBySerial"))
            => \E s \in (e + 1)..(o - 1) : CallAt(s, "SaveIni")

\* C26: LoadIni runs first; when it returns false SaveIni is the next call,
\* and is made; EnsureDetectedCameras runs only after LoadIni and after the
\* detection; when it reports outChanged = true, SaveIni is called before
\* any camera is opened.
C26_StartupOrder ==
    /\ [](LoadFirst /\ FallbackNext /\ EnsureAfterBoth /\ SavedBeforeOpen)
    /\ (at = "fallback") ~> (Len(calls) >= 2 /\ CallAt(2, "SaveIni"))
    /\ (at = "save") ~> (CallAt(Len(calls), "SaveIni") /\ at = "open")

\* a start without a readable file: the fallback SaveIni, the detection, a
\* call that sets cfgChanged, the SaveIni it asks for, then a camera opened
C26_Witness ==
    /\ Len(calls) >= 6
    /\ CallAt(1, "LoadIni") /\ ~calls[1].ok
    /\ CallAt(2, "SaveIni")
    /\ CallAt(3, "DetectStereoSerials")
    /\ CallAt(4, "EnsureDetectedCameras") /\ calls[4].ok
    /\ CallAt(5, "SaveIni")
    /\ CallAt(6, "OpenBySerial") /\ calls[6].ok

\* a start on a file that needs no change: a camera opened with no SaveIni
\* before it
C26_WitnessUnchanged ==
    /\ Len(calls) = 4
    /\ CallAt(1, "LoadIni") /\ calls[1].ok
    /\ CallAt(2, "DetectStereoSerials")
    /\ CallAt(3, "EnsureDetectedCameras") /\ ~calls[3].ok
    /\ CallAt(4, "OpenBySerial")

----------------------------------------------------------------------------
(* C29: LoadIni on a file that cannot be opened *)

\* the last LoadIni could not open the file
OpenFailed == op = "load" /\ ~opened

\* a LoadIni that cannot open the file returns false and leaves out as it
\* was before the call
C29_OutUntouched ==
    OpenFailed => (ret = FALSE /\ err = "none" /\ cfg = pre)

\* a config in use, holding cameras, handed to a LoadIni that cannot open
\* the file
C29_UsedWitness ==
    /\ OpenFailed /\ ret = FALSE
    /\ pre = UsedConfig /\ cfg = UsedConfig
    /\ file # <<>>

\* main has made two calls: a LoadIni that returned false and a SaveIni that
\* wrote the file
FallbackSaved ==
    /\ Len(calls) = 2
    /\ CallAt(1, "LoadIni") /\ ~calls[1].ok
    /\ CallAt(2, "SaveIni") /\ calls[2].ok

\* C29: when LoadIni returns false because the file cannot be opened, cfg
\* is left as it was before the call, so that the SaveIni main then makes
\* writes the file of the default configuration.
C29_FallbackSavesDefault ==
    /\ C29_OutUntouched
    /\ at = "fallback" => (OpenFailed /\ cfg = FreshConfig)
    /\ FallbackSaved => file = SaveIni(<<>>, FreshConfig, TRUE).file

\* the file written by the fallback SaveIni over one that could not be read
C29_Witness ==
    /\ FallbackSaved /\ at = "clamp"
    /\ cfg = FreshConfig
    /\ file = SaveIni(<<>>, FreshConfig, TRUE).file
    /\ Len(file) > 10

----------------------------------------------------------------------------
(* C30: serial, name and enabled through SaveIni and LoadIni *)

\* the saved config has as many records as maxCameras says
FullList == Len(pre.cameras) = pre.maxCameras

SameIdentity(a, b) == a.serial = b.serial /\ a.name = b.name /\ a.enabled = b.enabled

IdentityKept ==
    /\ Len(cfg.cameras) = Len(pre.cameras)
    /\ \A i \in Slots(pre.cameras) : SameIdentity(cfg.cameras[i + 1], pre.cameras[i + 1])

\* C30: for every config whose list has maxCameras records, SaveIni followed
\* by LoadIni into a fresh config gives every slot the saved serial, name
\* and enabled, whatever the strings are (';', '#', '=' and leading or
\* trailing blanks included).
C30_IdentityRoundTrip ==
    (AfterReload /\ FullList) => IdentityKept

\* a string the parser gives back as written: no ';', no '#', no blank at
\* either end
Verbatim(s) == Find(s, ";") = 0 /\ Find(s, "#") = 0 /\ Trim(s) = s

\* the same for configs whose serials are such strings and whose names are
\* such strings and not empty
C30_VerbatimStrings ==
    (AfterReload /\ FullList
        /\ \A i \in Slots(pre.cameras) :
               /\ Verbatim(pre.cameras[i + 1].serial)
               /\ Verbatim(pre.cameras[i + 1].name) /\ pre.cameras[i + 1].name # <<>>)
        => IdentityKept

\* a serial with ';' comes back cut at the ';'
C30_CutWitness ==
    /\ AfterReload /\ FullList
    /\ pre.cameras[1].serial = <<"a",";","b">>
    /\ cfg.cameras[1].serial = <<"a">>

\* a serial with '=' and a plain name come back as saved
C30_VerbatimWitness ==
    /\ AfterReload /\ FullList
    /\ pre.cameras[1].serial = <<"a","=","b">> /\ pre.cameras[1].name = SN1
    /\ ~pre.cameras[1].enabled
    /\ SameIdentity(cfg.cameras[1], pre.cameras[1])

=============================================================================
